---- MODULE Spec2Model ----
(***************************************************************************)
(* Zoning-compliance evaluation and metrics aggregation of the Portsmouth *)
(* zoning analysis scripts (analyze_parallel.py, analyze_with_violations  *)
(* .py and the two rule tables).                                          *)
(*                                                                         *)
(* Numbers.  The scripts compute with Python floats; the model uses exact *)
(* fixed-point integers:                                                   *)
(*   parcel_area_acres     in 1/1000 acre                                  *)
(*   parcel_area_sqft      in 1/100 square foot                            *)
(*   lot_coverage_pct      in 1/100 percent                                *)
(*   total_value           in whole currency units                         *)
(*   rounded outputs (round(x, 2)) in 1/100 of their unit                  *)
(* Rule-table entries keep the units of the source (sqft, percent, feet). *)
(*                                                                         *)
(* Text.  A string is a sequence of one-character strings, so that        *)
(* upper() and the substring test of the classifier are computed.         *)
(* A Python dict is a sequence of <<key, value>> pairs in insertion order.*)
(***************************************************************************)
EXTENDS Integers, Sequences, FiniteSets, Bags, TLC

VARIABLES
    property,             \* argument of the evaluator call under study
    violations,           \* value returned by that call (NotCalled before)
    properties,           \* the property collection handed to the aggregators
    metrics,              \* result of calculate_zone_metrics (NoResult before)
    violations_analysis,  \* accumulator / result of analyze_violations
    awv_analysis,         \* accumulator / result of analyze_properties
    pos,                  \* number of collection items the running pass has consumed
    pass,                 \* which aggregation pass the stepwise run executes
    zoning_rules,         \* the module global ZONING_RULES the evaluator reads
    classification,       \* value classify_land_use returned inside the evaluator call
    comparison,           \* locals of generate_residential_comparison at its exit
    infrastructure,       \* result of calculate_infrastructure_metrics
    runs,                 \* number of repeated aggregator calls made so far
    fetch_parcels,        \* the parcel list handed to fetch_all_properties
    tasks,                \* the fetch_property_data tasks, each with its position and locals
    semaphore,            \* the counter of the asyncio.Semaphore (free permits)
    completed,            \* outcomes of finished tasks, in completion order (as_completed)
    awaited,              \* number of task outcomes fetch_all_properties has awaited
    fetch_pc              \* position of fetch_all_properties

vars == <<property, violations, properties, metrics, violations_analysis,
          awv_analysis, pos, pass, zoning_rules, classification, comparison,
          infrastructure, runs,
          fetch_parcels, tasks, semaphore, completed, awaited, fetch_pc>>

----------------------------------------------------------------------------
(* Python values *)

\* None, for numeric rule fields
None == -1

\* None and a missing dict key, for fields held as plain strings (zone codes)
NoneStr == "<None>"
Absent == "<absent>"

\* None and a missing dict key, for fields held as character sequences
NoneText == <<"<None>">>
AbsentText == <<"<absent>">>

\* bool(x) of a rule-table number: None and 0 are falsy
Truthy(x) == x # None /\ x # 0

\* bool(s) of an optional string: None, a key missing under .get() and '' are falsy
TruthyStr(s) == s # NoneStr /\ s # Absent /\ s # ""

TruthyText(t) == t # NoneText /\ t # AbsentText /\ t # << >>

\* analyze_parallel.py line 104: parcel_area_sqft = parcel_area_acres * 43560
SQFT_PER_ACRE == 43560

\* fixed-point scales of the model (see the header)
ToCentiSqft(sqft) == sqft * 100
ToCentiPct(pct) == pct * 100

----------------------------------------------------------------------------
(* dict helpers: a dict is a sequence of <<key, value>> with distinct keys *)

Keys(d) == {d[i][1] : i \in DOMAIN d}

HasKey(d, k) == k \in Keys(d)

Get(d, k) == d[CHOOSE i \in DOMAIN d : d[i][1] = k][2]

\* d[k] = v : replaces in place, or appends a new key at the end
Put(d, k, v) ==
    IF HasKey(d, k)
    THEN [i \in DOMAIN d |-> IF d[i][1] = k THEN <<k, v>> ELSE d[i]]
    ELSE Append(d, <<k, v>>)

\* the key/value pairs without their order
Items(d) == {d[i] : i \in DOMAIN d}

----------------------------------------------------------------------------
(* Text *)

LowerCase == <<"a","b","c","d","e","f","g","h","i","j","k","l","m",
               "n","o","p","q","r","s","t","u","v","w","x","y","z">>
UpperCase == <<"A","B","C","D","E","F","G","H","I","J","K","L","M",
               "N","O","P","Q","R","S","T","U","V","W","X","Y","Z">>

\* the upper-case letter of every lower-case letter
LowerToUpper == [c \in {LowerCase[i] : i \in DOMAIN LowerCase} |->
                    UpperCase[CHOOSE i \in DOMAIN LowerCase : LowerCase[i] = c]]

UpperChar(c) == IF c \in DOMAIN LowerToUpper THEN LowerToUpper[c] ELSE c

\* str.upper()
Upper(s) == [i \in DOMAIN s |-> UpperChar(s[i])]

\* key in s : key occurs as a contiguous substring of s
Contains(s, key) ==
    \E off \in 0..(Len(s) - Len(key)) :
        \A j \in 1..Len(key) : s[off + j] = key[j]

----------------------------------------------------------------------------
(* portsmouth_zoning_rules_corrected.py *)

ZONING_RULES == <<
    <<"R", [name |-> "Residential", min_lot_size_sqft |-> 217800,
            min_frontage_ft |-> None, max_lot_coverage_pct |-> 5,
            min_open_space_pct |-> 75, front_setback_ft |-> 50,
            side_setback_ft |-> 20, rear_setback_ft |-> 40,
            allowed_uses |-> <<"single_family", "accessory_dwelling">>]>>,
    <<"SRA", [name |-> "Single Residence A", min_lot_size_sqft |-> 43560,
            min_frontage_ft |-> 150, max_lot_coverage_pct |-> 10,
            min_open_space_pct |-> 50, front_setback_ft |-> 30,
            side_setback_ft |-> 20, rear_setback_ft |-> 40,
            allowed_uses |-> <<"single_family", "accessory_dwelling">>]>>,
    <<"SRB", [name |-> "Single Residence B", min_lot_size_sqft |-> 15000,
            min_frontage_ft |-> 100, max_lot_coverage_pct |-> 20,
            min_open_space_pct |-> 40, front_setback_ft |-> 30,
            side_setback_ft |-> 10, rear_setback_ft |-> 30,
            allowed_uses |-> <<"single_family", "accessory_dwelling">>]>>,
    <<"GRA", [name |-> "General Residence A", min_lot_size_sqft |-> 7500,
            min_frontage_ft |-> 100, max_lot_coverage_pct |-> 25,
            min_open_space_pct |-> 30, front_setback_ft |-> 15,
            side_setback_ft |-> 10, rear_setback_ft |-> 20,
            allowed_uses |-> <<"single_family", "two_family", "multi_family",
                               "accessory_dwelling">>]>>,
    <<"GRB", [name |-> "General Residence B", min_lot_size_sqft |-> 5000,
            min_frontage_ft |-> 80, max_lot_coverage_pct |-> 30,
            min_open_space_pct |-> 25, front_setback_ft |-> 5,
            side_setback_ft |-> 10, rear_setback_ft |-> 25,
            allowed_uses |-> <<"single_family", "two_family", "multi_family",
                               "accessory_dwelling">>]>>,
    <<"GRC", [name |-> "General Residence C", min_lot_size_sqft |-> 3500,
            min_frontage_ft |-> 70, max_lot_coverage_pct |-> 35,
            min_open_space_pct |-> 20, front_setback_ft |-> 5,
            side_setback_ft |-> 10, rear_setback_ft |-> 20,
            allowed_uses |-> <<"single_family", "two_family", "multi_family",
                               "accessory_dwelling">>]>>,
    <<"MRO", [name |-> "Mixed Residential Office", min_lot_size_sqft |-> 7500,
            min_frontage_ft |-> 100, max_lot_coverage_pct |-> 40,
            min_open_space_pct |-> 25, front_setback_ft |-> 5,
            side_setback_ft |-> 10, rear_setback_ft |-> 15,
            allowed_uses |-> <<"single_family", "two_family", "multi_family",
                               "office", "mixed_use">>]>>,
    <<"MRB", [name |-> "Mixed Residential Business", min_lot_size_sqft |-> 7500,
            min_frontage_ft |-> 100, max_lot_coverage_pct |-> 40,
            min_open_space_pct |-> 25, front_setback_ft |-> 5,
            side_setback_ft |-> 10, rear_setback_ft |-> 15,
            allowed_uses |-> <<"single_family", "two_family", "multi_family",
                               "commercial", "mixed_use">>]>>,
    <<"GA/MH", [name |-> "Garden Apartment/Mobile Home Park",
            min_lot_size_sqft |-> 217800,
            min_frontage_ft |-> None, max_lot_coverage_pct |-> 20,
            min_open_space_pct |-> 50, front_setback_ft |-> 30,
            side_setback_ft |-> 25, rear_setback_ft |-> 25,
            allowed_uses |-> <<"multi_family", "mobile_home">>]>>,
    <<"B", [name |-> "Business", min_lot_size_sqft |-> 20000,
            min_frontage_ft |-> 100, max_lot_coverage_pct |-> 35,
            min_open_space_pct |-> 15, front_setback_ft |-> 20,
            side_setback_ft |-> 15, rear_setback_ft |-> 15,
            allowed_uses |-> <<"commercial", "retail", "office", "mixed_use">>]>>,
    <<"GB", [name |-> "General Business", min_lot_size_sqft |-> 43560,
            min_frontage_ft |-> 200, max_lot_coverage_pct |-> 30,
            min_open_space_pct |-> 20, front_setback_ft |-> 30,
            side_setback_ft |-> 30, rear_setback_ft |-> 50,
            allowed_uses |-> <<"commercial", "retail", "office", "mixed_use">>]>>,
    <<"G1", [name |-> "General Business 1", min_lot_size_sqft |-> 43560,
            min_frontage_ft |-> 200, max_lot_coverage_pct |-> 30,
            min_open_space_pct |-> 20, front_setback_ft |-> 30,
            side_setback_ft |-> 30, rear_setback_ft |-> 50,
            allowed_uses |-> <<"commercial", "retail", "office", "mixed_use">>]>>,
    <<"G2", [name |-> "General Business 2", min_lot_size_sqft |-> 43560,
            min_frontage_ft |-> 200, max_lot_coverage_pct |-> 30,
            min_open_space_pct |-> 20, front_setback_ft |-> 30,
            side_setback_ft |-> 30, rear_setback_ft |-> 50,
            allowed_uses |-> <<"commercial", "retail", "office", "mixed_use">>]>>,
    <<"WB", [name |-> "Waterfront Business", min_lot_size_sqft |-> 20000,
            min_frontage_ft |-> 100, max_lot_coverage_pct |-> 30,
            min_open_space_pct |-> 20, front_setback_ft |-> 30,
            side_setback_ft |-> 30, rear_setback_ft |-> 20,
            allowed_uses |-> <<"commercial", "retail", "office", "marine">>]>>,
    <<"I", [name |-> "Industrial", min_lot_size_sqft |-> 87120,
            min_frontage_ft |-> 200, max_lot_coverage_pct |-> 50,
            min_open_space_pct |-> 20, front_setback_ft |-> 70,
            side_setback_ft |-> 50, rear_setback_ft |-> 50,
            allowed_uses |-> <<"industrial", "manufacturing">>]>>,
    <<"WI", [name |-> "Waterfront Industrial", min_lot_size_sqft |-> 87120,
            min_frontage_ft |-> 200, max_lot_coverage_pct |-> 50,
            min_open_space_pct |-> 20, front_setback_ft |-> 70,
            side_setback_ft |-> 50, rear_setback_ft |-> 50,
            allowed_uses |-> <<"industrial", "manufacturing", "marine">>]>>,
    <<"OR", [name |-> "Office Research", min_lot_size_sqft |-> 130680,
            min_frontage_ft |-> 300, max_lot_coverage_pct |-> 30,
            min_open_space_pct |-> 30, front_setback_ft |-> 50,
            side_setback_ft |-> 75, rear_setback_ft |-> 50,
            allowed_uses |-> <<"office", "research", "technology">>]>>,
    <<"M", [name |-> "Municipal", min_lot_size_sqft |-> None,
            min_frontage_ft |-> None, max_lot_coverage_pct |-> None,
            min_open_space_pct |-> None, front_setback_ft |-> None,
            side_setback_ft |-> None, rear_setback_ft |-> None,
            allowed_uses |-> <<"municipal", "public">>]>>,
    <<"NRP", [name |-> "Natural Resource Protection", min_lot_size_sqft |-> 217800,
            min_frontage_ft |-> 150, max_lot_coverage_pct |-> 10,
            min_open_space_pct |-> 70, front_setback_ft |-> 50,
            side_setback_ft |-> 25, rear_setback_ft |-> 50,
            allowed_uses |-> <<"conservation", "agriculture", "single_family">>]>>
    >>

(* portsmouth_zoning_rules.py : the earlier table, still imported by
   analyze_with_violations.py *)
ORIGINAL_ZONING_RULES == <<
    <<"SRB", [name |-> "Single Residence B", min_lot_size_sqft |-> 7500,
            min_frontage_ft |-> 100, max_lot_coverage_pct |-> 25,
            min_open_space_pct |-> 30, front_setback_ft |-> 30,
            side_setback_ft |-> 10, rear_setback_ft |-> 20,
            allowed_uses |-> <<"single_family", "accessory_dwelling">>]>>,
    <<"SRA", [name |-> "Single Residence A", min_lot_size_sqft |-> 15000,
            min_frontage_ft |-> 125, max_lot_coverage_pct |-> 20,
            min_open_space_pct |-> 40, front_setback_ft |-> 35,
            side_setback_ft |-> 15, rear_setback_ft |-> 25,
            allowed_uses |-> <<"single_family", "accessory_dwelling">>]>>,
    <<"GRA", [name |-> "General Residence A", min_lot_size_sqft |-> 5000,
            min_frontage_ft |-> 50, max_lot_coverage_pct |-> 50,
            min_open_space_pct |-> 20, front_setback_ft |-> 20,
            side_setback_ft |-> 10, rear_setback_ft |-> 20,
            allowed_uses |-> <<"single_family", "two_family", "multi_family",
                               "accessory_dwelling">>]>>,
    <<"M", [name |-> "Municipal", min_lot_size_sqft |-> None,
            min_frontage_ft |-> None, max_lot_coverage_pct |-> None,
            min_open_space_pct |-> None, front_setback_ft |-> None,
            side_setback_ft |-> None, rear_setback_ft |-> None,
            allowed_uses |-> <<"municipal", "public">>]>>,
    <<"R", [name |-> "Residential", min_lot_size_sqft |-> 10000,
            min_frontage_ft |-> 100, max_lot_coverage_pct |-> 30,
            min_open_space_pct |-> 30, front_setback_ft |-> 30,
            side_setback_ft |-> 15, rear_setback_ft |-> 25,
            allowed_uses |-> <<"single_family", "accessory_dwelling">>]>>,
    <<"G1", [name |-> "General Business 1", min_lot_size_sqft |-> 5000,
            min_frontage_ft |-> 50, max_lot_coverage_pct |-> 70,
            min_open_space_pct |-> 10, front_setback_ft |-> 10,
            side_setback_ft |-> 0, rear_setback_ft |-> 10,
            allowed_uses |-> <<"commercial", "retail", "office", "mixed_use">>]>>,
    <<"NRP", [name |-> "Natural Resource Protection", min_lot_size_sqft |-> 43560,
            min_frontage_ft |-> 150, max_lot_coverage_pct |-> 10,
            min_open_space_pct |-> 70, front_setback_ft |-> 50,
            side_setback_ft |-> 25, rear_setback_ft |-> 50,
            allowed_uses |-> <<"conservation", "agriculture", "single_family">>]>>
    >>

\* LAND_USE_CLASSIFICATIONS, in definition order (identical in both rule modules)
LAND_USE_CLASSIFICATIONS == <<
    << <<"S","I","N","G","L","E"," ","F","A","M">>, "single_family" >>,
    << <<"T","W","O"," ","F","A","M">>, "two_family" >>,
    << <<"M","U","L","T","I"," ","F","A","M">>, "multi_family" >>,
    << <<"C","O","N","D","O">>, "multi_family" >>,
    << <<"A","P","A","R","T","M","E","N","T">>, "multi_family" >>,
    << <<"C","O","M","M","E","R","C","I","A","L">>, "commercial" >>,
    << <<"R","E","T","A","I","L">>, "retail" >>,
    << <<"O","F","F","I","C","E">>, "office" >>,
    << <<"I","N","D","U","S","T","R","I","A","L">>, "industrial" >>,
    << <<"M","U","N","I","C","I","P","A","L">>, "municipal" >>,
    << <<"V","A","C","A","N","T">>, "vacant" >>,
    << <<"M","I","X","E","D"," ","U","S","E">>, "mixed_use" >>
    >>

RECURSIVE last_match(_, _)
\* a scan that goes through the whole table and keeps the last key found
last_match(land_use_upper, k) ==
    IF k > Len(LAND_USE_CLASSIFICATIONS)
    THEN "other"
    ELSE LET later == last_match(land_use_upper, k + 1)
         IN  IF later # "other"
             THEN later
             ELSE IF Contains(land_use_upper, LAND_USE_CLASSIFICATIONS[k][1])
             THEN LAND_USE_CLASSIFICATIONS[k][2]
             ELSE "other"

RECURSIVE first_match(_, _)
\* lines 242-245: the loop over the table returns at the first key found
first_match(land_use_upper, k) ==
    IF k > Len(LAND_USE_CLASSIFICATIONS)
    THEN "other"
    ELSE IF Contains(land_use_upper, LAND_USE_CLASSIFICATIONS[k][1])
    THEN LAND_USE_CLASSIFICATIONS[k][2]
    ELSE first_match(land_use_upper, k + 1)

\* a variant with a further key: a description naming a farm is agriculture
classify_land_use_farm(land_use_desc) ==
    IF ~TruthyText(land_use_desc)
    THEN "unknown"
    ELSE IF Contains(Upper(land_use_desc), <<"F","A","R","M">>)
    THEN "agriculture"
    ELSE first_match(Upper(land_use_desc), 1)

\* a variant that looks for VACANT before any other key
classify_land_use_vacant_first(land_use_desc) ==
    IF ~TruthyText(land_use_desc)
    THEN "unknown"
    ELSE IF Contains(Upper(land_use_desc), <<"V","A","C","A","N","T">>)
    THEN "vacant"
    ELSE first_match(Upper(land_use_desc), 1)

\* lines 236-245
classify_land_use(land_use_desc) ==
    IF ~TruthyText(land_use_desc)
    THEN "unknown"
    ELSE first_match(Upper(land_use_desc), 1)

----------------------------------------------------------------------------
(* Rounding *)

\* n / d rounded to the nearest integer, ties to even (Python round / format),
\* for n >= 0 and d > 0
RoundHalfEven(n, d) ==
    LET q == n \div d
        r == n % d
    IN  IF 2 * r < d THEN q
        ELSE IF 2 * r > d THEN q + 1
        ELSE IF q % 2 = 0 THEN q ELSE q + 1

----------------------------------------------------------------------------
(* analyze_parallel.py : check_zoning_violations *)

\* a numeric key the property dict does not have
MissingKey == -2

\* what the caller observes when a subscript raises KeyError
KeyError == <<[type |-> "KeyError"]>>

\* dict.get(key) / dict.get(key, default) of an optional field
GetStr(value, default) == IF value = Absent THEN default ELSE value

GetText(value, default) == IF value = AbsentText THEN default ELSE value

\* lines 188-196: the lot-size check
undersized_lot_lax(rules, prop) ==
    IF Truthy(rules.min_lot_size_sqft)
       /\ prop.parcel_area_sqft <= ToCentiSqft(rules.min_lot_size_sqft)
    THEN << [type |-> "undersized_lot",
             severity |-> "major",
             description |-> <<"Lot size", RoundHalfEven(prop.parcel_area_sqft, 100),
                               "sqft is below minimum", rules.min_lot_size_sqft, "sqft">>,
             deficit |-> ToCentiSqft(rules.min_lot_size_sqft) - prop.parcel_area_sqft] >>
    ELSE << >>

undersized_lot(rules, prop) ==
    IF Truthy(rules.min_lot_size_sqft)
       /\ prop.parcel_area_sqft < ToCentiSqft(rules.min_lot_size_sqft)
    THEN << [type |-> "undersized_lot",
             severity |-> "major",
             description |-> <<"Lot size", RoundHalfEven(prop.parcel_area_sqft, 100),
                               "sqft is below minimum", rules.min_lot_size_sqft, "sqft">>,
             deficit |-> ToCentiSqft(rules.min_lot_size_sqft) - prop.parcel_area_sqft] >>
    ELSE << >>

\* lines 198-206: the lot-coverage check
excess_lot_coverage_lax(rules, prop) ==
    IF Truthy(rules.max_lot_coverage_pct) /\ prop.lot_coverage_pct > 0
       /\ prop.lot_coverage_pct >= ToCentiPct(rules.max_lot_coverage_pct)
    THEN << [type |-> "excess_lot_coverage",
             severity |-> "major",
             description |-> <<"Lot coverage", RoundHalfEven(prop.lot_coverage_pct, 10),
                               "% exceeds maximum", rules.max_lot_coverage_pct, "%">>,
             excess_pct |-> prop.lot_coverage_pct - ToCentiPct(rules.max_lot_coverage_pct)] >>
    ELSE << >>

excess_lot_coverage(rules, prop) ==
    IF Truthy(rules.max_lot_coverage_pct) /\ prop.lot_coverage_pct > 0
       /\ prop.lot_coverage_pct > ToCentiPct(rules.max_lot_coverage_pct)
    THEN << [type |-> "excess_lot_coverage",
             severity |-> "major",
             description |-> <<"Lot coverage", RoundHalfEven(prop.lot_coverage_pct, 10),
                               "% exceeds maximum", rules.max_lot_coverage_pct, "%">>,
             excess_pct |-> prop.lot_coverage_pct - ToCentiPct(rules.max_lot_coverage_pct)] >>
    ELSE << >>

\* x in list
InList(x, list) == \E i \in DOMAIN list : list[i] = x

\* lines 208-217: the land-use check
incompatible_use_no_exemption(rules, land_use) ==
    IF rules.allowed_uses # << >> /\ land_use # "unknown"
       /\ ~InList(land_use, rules.allowed_uses)
    THEN << [type |-> "incompatible_use",
             severity |-> "critical",
             description |-> <<"Land use '", land_use, "' not allowed in", rules.name, "zone">>,
             current_use |-> land_use,
             allowed_uses |-> rules.allowed_uses] >>
    ELSE << >>

incompatible_use(rules, land_use) ==
    IF rules.allowed_uses # << >> /\ land_use # "unknown" /\ land_use # "vacant"
       /\ ~InList(land_use, rules.allowed_uses)
    THEN << [type |-> "incompatible_use",
             severity |-> "critical",
             description |-> <<"Land use '", land_use, "' not allowed in", rules.name, "zone">>,
             current_use |-> land_use,
             allowed_uses |-> rules.allowed_uses] >>
    ELSE << >>

\* the three checks with the land-use check moved to the front
apply_rules_use_first(rules, prop) ==
    LET land_use == classify_land_use(GetText(prop.land_use_desc, << >>))
    IN  IF Truthy(rules.min_lot_size_sqft) /\ prop.parcel_area_sqft = MissingKey
        THEN KeyError
        ELSE IF Truthy(rules.max_lot_coverage_pct) /\ prop.lot_coverage_pct = MissingKey
        THEN KeyError
        ELSE incompatible_use(rules, land_use)
             \o undersized_lot(rules, prop)
             \o excess_lot_coverage(rules, prop)

\* a fourth check that reads min_open_space_pct
insufficient_open_space(rules, prop) ==
    IF Truthy(rules.min_open_space_pct) /\ prop.lot_coverage_pct # MissingKey
       /\ prop.lot_coverage_pct > ToCentiPct(100 - rules.min_open_space_pct)
    THEN << [type |-> "insufficient_open_space", severity |-> "major"] >>
    ELSE << >>

\* the three checks followed by the open-space check
apply_rules_open_space(rules, prop) ==
    LET land_use == classify_land_use(GetText(prop.land_use_desc, << >>))
    IN  IF Truthy(rules.min_lot_size_sqft) /\ prop.parcel_area_sqft = MissingKey
        THEN KeyError
        ELSE IF Truthy(rules.max_lot_coverage_pct) /\ prop.lot_coverage_pct = MissingKey
        THEN KeyError
        ELSE undersized_lot(rules, prop)
             \o excess_lot_coverage(rules, prop)
             \o incompatible_use(rules, land_use)
             \o insufficient_open_space(rules, prop)

\* lines 185-219: the three checks, in order, against one zone's rules; a
\* subscript of a key the property lacks raises before anything is returned
apply_rules(rules, prop) ==
    LET land_use == classify_land_use(GetText(prop.land_use_desc, << >>))
    IN  IF Truthy(rules.min_lot_size_sqft) /\ prop.parcel_area_sqft = MissingKey
        THEN KeyError
        ELSE IF Truthy(rules.max_lot_coverage_pct) /\ prop.lot_coverage_pct = MissingKey
        THEN KeyError
        ELSE undersized_lot(rules, prop)
             \o excess_lot_coverage(rules, prop)
             \o incompatible_use(rules, land_use)

\* lines 181-219, over the rule table the name ZONING_RULES is bound to
check_zoning_violations_with(table, prop) ==
    LET zone == GetStr(prop.zoning, NoneStr)
    IN  IF ~TruthyStr(zone) \/ ~HasKey(table, zone)
        THEN << >>
        ELSE apply_rules(Get(table, zone), prop)

\* a variant whose guard lets an unknown zone code through to the table lookup
check_zoning_violations_unguarded(prop) ==
    LET zone == GetStr(prop.zoning, NoneStr)
    IN  IF ~TruthyStr(zone)
        THEN << >>
        ELSE IF ~HasKey(zoning_rules, zone)
        THEN KeyError
        ELSE apply_rules(Get(zoning_rules, zone), prop)

\* a variant that reports a zone code missing from the rule table as a violation
check_zoning_violations_flag_unknown(prop) ==
    LET zone == GetStr(prop.zoning, NoneStr)
    IN  IF ~TruthyStr(zone)
        THEN << >>
        ELSE IF ~HasKey(zoning_rules, zone)
        THEN << [type |-> "unknown_zone", severity |-> "minor",
                 description |-> <<"Zone", zone, "is not in the rule table">>] >>
        ELSE apply_rules(Get(zoning_rules, zone), prop)

\* lines 177-219
check_zoning_violations(prop) ==
    LET zone == GetStr(prop.zoning, NoneStr)
    IN  IF ~TruthyStr(zone) \/ ~HasKey(zoning_rules, zone)
        THEN << >>
        ELSE apply_rules(Get(zoning_rules, zone), prop)

\* analyze_with_violations.py lines 139-181: the same function over the
\* earlier rule table
awv_check_zoning_violations(prop) ==
    check_zoning_violations_with(ORIGINAL_ZONING_RULES, prop)

\* the call returned at line 183, before classify_land_use was reached
NotClassified == "<not classified>"

\* line 186: the value bound to land_use during the call
classified_land_use(prop) ==
    LET zone == GetStr(prop.zoning, NoneStr)
    IN  IF ~TruthyStr(zone) \/ ~HasKey(zoning_rules, zone)
        THEN NotClassified
        ELSE classify_land_use(GetText(prop.land_use_desc, << >>))

----------------------------------------------------------------------------
(* analyze_parallel.py : calculate_zone_metrics *)

\* a collection item that is None (or an empty dict): "if not prop"
NoneProperty ==
    [parcel_id |-> 0, address |-> NoneStr, zoning |-> Absent,
     land_use_desc |-> AbsentText, total_value |-> 0, parcel_area_acres |-> 0,
     parcel_area_sqft |-> MissingKey, lot_coverage_pct |-> MissingKey]

\* a skip test that also drops zone codes missing from the rule table
Skipped_unknown_zone(prop) ==
    \/ prop = NoneProperty
    \/ ~TruthyStr(GetStr(prop.zoning, NoneStr))
    \/ ~HasKey(ZONING_RULES, prop.zoning)

\* lines 234 / 289: the items the aggregation loops skip
Skipped(prop) ==
    prop = NoneProperty \/ ~TruthyStr(GetStr(prop.zoning, NoneStr))

\* the text 'Unknown' that replaces a None or empty description (line 240)
UNKNOWN_LAND_USE == <<"U","n","k","n","o","w","n">>

\* the default-factory entry of zone_data (lines 224-229)
NewZoneData ==
    [total_acres |-> 0, total_value |-> 0, parcel_count |-> 0, land_uses |-> << >>]

\* defaultdict lookup: the entry, or the default when the key is new
GetDefault(d, k, default) == IF HasKey(d, k) THEN Get(d, k) ELSE default

\* a loop body that overwrites the zone's value instead of adding to it
zone_metrics_step_overwrite(acc, prop) ==
    IF Skipped(prop)
    THEN acc
    ELSE LET zone == prop.zoning
             land_use == IF TruthyText(prop.land_use_desc)
                         THEN prop.land_use_desc ELSE UNKNOWN_LAND_USE
             old == GetDefault(acc.zone_data, zone, NewZoneData)
             new == [total_acres |-> old.total_acres + prop.parcel_area_acres,
                     total_value |-> prop.total_value,
                     parcel_count |-> old.parcel_count + 1,
                     land_uses |-> Put(old.land_uses, land_use,
                                       GetDefault(old.land_uses, land_use, 0) + 1)]
         IN  [zone_data |-> Put(acc.zone_data, zone, new),
              total_acres |-> acc.total_acres + prop.parcel_area_acres]

\* a loop body that tallies the description as it is, None included
zone_metrics_step_raw_use(acc, prop) ==
    IF Skipped(prop)
    THEN acc
    ELSE LET zone == prop.zoning
             old == GetDefault(acc.zone_data, zone, NewZoneData)
             new == [total_acres |-> old.total_acres + prop.parcel_area_acres,
                     total_value |-> old.total_value + prop.total_value,
                     parcel_count |-> old.parcel_count + 1,
                     land_uses |-> Put(old.land_uses, prop.land_use_desc,
                                       GetDefault(old.land_uses, prop.land_use_desc, 0) + 1)]
         IN  [zone_data |-> Put(acc.zone_data, zone, new),
              total_acres |-> acc.total_acres + prop.parcel_area_acres]

\* lines 233-247: one iteration of the accumulation loop
zone_metrics_step(acc, prop) ==
    IF Skipped(prop)
    THEN acc
    ELSE LET zone == prop.zoning
             land_use == IF TruthyText(prop.land_use_desc)
                         THEN prop.land_use_desc ELSE UNKNOWN_LAND_USE
             old == GetDefault(acc.zone_data, zone, NewZoneData)
             new == [total_acres |-> old.total_acres + prop.parcel_area_acres,
                     total_value |-> old.total_value + prop.total_value,
                     parcel_count |-> old.parcel_count + 1,
                     land_uses |-> Put(old.land_uses, land_use,
                                       GetDefault(old.land_uses, land_use, 0) + 1)]
         IN  [zone_data |-> Put(acc.zone_data, zone, new),
              total_acres |-> acc.total_acres + prop.parcel_area_acres]

RECURSIVE zone_metrics_loop(_, _)
\* lines 231-247: the loop over the whole collection
zone_metrics_loop(acc, props) ==
    IF props = << >>
    THEN acc
    ELSE zone_metrics_loop(zone_metrics_step(acc, Head(props)), Tail(props))

\* round(n / d * scale) to the nearest integer, ties to even; the quotient is
\* taken first so that the product stays in range
RoundRatio(n, d, scale) ==
    (n \div d) * scale + RoundHalfEven((n % d) * scale, d)

\* a share left as a fraction of 1: the "* 100" is forgotten
percent_of_land_fraction(zone_acres, total_acres) ==
    IF total_acres > 0 THEN RoundRatio(zone_acres, total_acres, 100) ELSE 0

\* a share that falls back to the whole when there is no land at all
percent_of_land_default_full(zone_acres, total_acres) ==
    IF total_acres > 0 THEN RoundRatio(zone_acres, total_acres, 10000) ELSE 10000

\* lines 255, 260: round(zone_acres / total_acres * 100, 2), in 1/100 percent
percent_of_land(zone_acres, total_acres) ==
    IF total_acres > 0 THEN RoundRatio(zone_acres, total_acres, 10000) ELSE 0

\* lines 256, 262: round(total_value / zone_acres, 2), in 1/100 currency unit
\* per acre; zone_acres is in 1/1000 acre, and the whole part of the quotient
\* is split off before scaling so that the products stay in range
revenue_density(total_value, zone_acres) ==
    IF zone_acres > 0
    THEN (total_value \div zone_acres) * 100000
         + RoundRatio((total_value % zone_acres) * 1000, zone_acres, 100)
    ELSE 0

\* a report entry whose acres are cut to 2 decimals instead of rounded
zone_report_truncated(data, total_acres) ==
    [total_acres |-> data.total_acres \div 10,
     percent_of_land |-> percent_of_land(data.total_acres, total_acres),
     total_value |-> data.total_value,
     revenue_density |-> revenue_density(data.total_value, data.total_acres),
     parcel_count |-> data.parcel_count,
     land_uses |-> data.land_uses]

\* lines 258-265: the reported entry of one zone; total_acres in 1/100 acre
zone_report(data, total_acres) ==
    [total_acres |-> RoundHalfEven(data.total_acres, 10),
     percent_of_land |-> percent_of_land(data.total_acres, total_acres),
     total_value |-> data.total_value,
     revenue_density |-> revenue_density(data.total_value, data.total_acres),
     parcel_count |-> data.parcel_count,
     land_uses |-> data.land_uses]

\* the result has no most_revenue_dense_zone key
NoDenseZone == [zone |-> Absent, revenue_per_acre |-> 0]

\* a maximum search that keeps the last maximal item
most_revenue_dense_zone_last(zones) ==
    IF zones = << >>
    THEN NoDenseZone
    ELSE LET best == CHOOSE i \in DOMAIN zones :
                        /\ \A j \in DOMAIN zones :
                              zones[j][2].revenue_density <= zones[i][2].revenue_density
                        /\ \A j \in (i + 1)..Len(zones) :
                              zones[j][2].revenue_density < zones[i][2].revenue_density
         IN  [zone |-> zones[best][1],
              revenue_per_acre |-> zones[best][2].revenue_density]

\* lines 267-272: max() keeps the first maximal item in iteration order
most_revenue_dense_zone(zones) ==
    IF zones = << >>
    THEN NoDenseZone
    ELSE LET best == CHOOSE i \in DOMAIN zones :
                        /\ \A j \in DOMAIN zones :
                              zones[j][2].revenue_density <= zones[i][2].revenue_density
                        /\ \A j \in 1..(i - 1) :
                              zones[j][2].revenue_density < zones[i][2].revenue_density
         IN  [zone |-> zones[best][1],
              revenue_per_acre |-> zones[best][2].revenue_density]

\* lines 222-274
calculate_zone_metrics(props) ==
    LET acc == zone_metrics_loop([zone_data |-> << >>, total_acres |-> 0], props)
        zones == [i \in DOMAIN acc.zone_data |->
                    << acc.zone_data[i][1],
                       zone_report(acc.zone_data[i][2], acc.total_acres) >>]
    IN  [total_acres |-> acc.total_acres,
         zones |-> zones,
         most_revenue_dense_zone |-> most_revenue_dense_zone(zones)]

----------------------------------------------------------------------------
(* analyze_parallel.py : analyze_violations
   analyze_with_violations.py : analyze_properties *)

\* the example caps written into the two loops
PARALLEL_EXAMPLE_CAP == 10
AWV_EXAMPLE_CAP == 5

\* the default-factory entry of violations_by_zone (lines 279-284)
NewZoneViolations ==
    [total_parcels |-> 0, parcels_with_violations |-> 0,
     violations_by_type |-> << >>, examples |-> << >>]

RECURSIVE count_types(_, _)
\* lines 300-301: violations_by_type[v['type']] += 1 for every violation
count_types(by_type, found) ==
    IF found = << >>
    THEN by_type
    ELSE count_types(Put(by_type, Head(found).type,
                         GetDefault(by_type, Head(found).type, 0) + 1),
                     Tail(found))

\* an example list that keeps the newest entries: at the cap the oldest is dropped
store_example_newest(examples, prop, found, cap) ==
    IF Len(examples) < cap
    THEN Append(examples, [address |-> prop.address, parcel_id |-> prop.parcel_id,
                           violations |-> found])
    ELSE Append(Tail(examples), [address |-> prop.address, parcel_id |-> prop.parcel_id,
                                 violations |-> found])

\* lines 303-309: the example is stored only while the zone's list is below the cap
store_example(examples, prop, found, cap) ==
    IF Len(examples) < cap
    THEN Append(examples, [address |-> prop.address, parcel_id |-> prop.parcel_id,
                           violations |-> found])
    ELSE examples

\* a variant that counts a parcel only when its zone is in the rule table
violations_step_known_zones(acc, prop, found, cap) ==
    IF Skipped(prop) \/ ~HasKey(zoning_rules, prop.zoning)
    THEN acc
    ELSE LET zone == prop.zoning
             old == GetDefault(acc.violations_by_zone, zone, NewZoneViolations)
             counted == [old EXCEPT !.total_parcels = @ + 1]
             new == IF found # << >>
                    THEN [counted EXCEPT
                            !.parcels_with_violations = @ + 1,
                            !.violations_by_type = count_types(@, found),
                            !.examples = store_example(@, prop, found, cap)]
                    ELSE counted
         IN  [violations_by_zone |-> Put(acc.violations_by_zone, zone, new),
              all_violations |-> IF found # << >>
                                 THEN Append(acc.all_violations,
                                             [property |-> prop, violations |-> found])
                                 ELSE acc.all_violations]

\* a variant that counts the parcel once for each of its violations
violations_step_count_each(acc, prop, found, cap) ==
    IF Skipped(prop)
    THEN acc
    ELSE LET zone == prop.zoning
             old == GetDefault(acc.violations_by_zone, zone, NewZoneViolations)
             counted == [old EXCEPT !.total_parcels = @ + 1]
             new == IF found # << >>
                    THEN [counted EXCEPT
                            !.parcels_with_violations = @ + Len(found),
                            !.violations_by_type = count_types(@, found),
                            !.examples = store_example(@, prop, found, cap)]
                    ELSE counted
         IN  [violations_by_zone |-> Put(acc.violations_by_zone, zone, new),
              all_violations |-> IF found # << >>
                                 THEN Append(acc.all_violations,
                                             [property |-> prop, violations |-> found])
                                 ELSE acc.all_violations]

\* lines 288-314: one iteration of the aggregation loop; found is the value of
\* check_zoning_violations(prop), cap the literal of the loop
violations_step(acc, prop, found, cap) ==
    IF Skipped(prop)
    THEN acc
    ELSE LET zone == prop.zoning
             old == GetDefault(acc.violations_by_zone, zone, NewZoneViolations)
             counted == [old EXCEPT !.total_parcels = @ + 1]
             new == IF found # << >>
                    THEN [counted EXCEPT
                            !.parcels_with_violations = @ + 1,
                            !.violations_by_type = count_types(@, found),
                            !.examples = store_example(@, prop, found, cap)]
                    ELSE counted
         IN  [violations_by_zone |-> Put(acc.violations_by_zone, zone, new),
              all_violations |-> IF found # << >>
                                 THEN Append(acc.all_violations,
                                             [property |-> prop, violations |-> found])
                                 ELSE acc.all_violations]

\* the accumulators at loop entry (lines 279-286)
EmptyAnalysis == [violations_by_zone |-> << >>, all_violations |-> << >>]

\* analyze_parallel.py lines 288-314
analyze_violations_step(acc, prop) ==
    violations_step(acc, prop, check_zoning_violations(prop), PARALLEL_EXAMPLE_CAP)

\* analyze_with_violations.py lines 195-221
analyze_properties_step(acc, prop) ==
    violations_step(acc, prop, awv_check_zoning_violations(prop), AWV_EXAMPLE_CAP)

\* a variant that tolerates 20 points of coverage above the table's maximum
reanalyze_check_zoning_violations_tolerant(prop) ==
    LET zone == GetStr(prop.zoning, NoneStr)
        known == IF prop.lot_coverage_pct = MissingKey
                 THEN [prop EXCEPT !.lot_coverage_pct = 0] ELSE prop
    IN  IF ~TruthyStr(zone) \/ ~HasKey(zoning_rules, zone)
        THEN << >>
        ELSE apply_rules([Get(zoning_rules, zone) EXCEPT
                            !.max_lot_coverage_pct = IF @ = None THEN None ELSE @ + 20],
                         known)

\* reanalyze_with_corrected_rules.py lines 12-54: the evaluator that reads the
\* coverage with property.get('lot_coverage_pct', 0), so that a record without
\* the key is not checked for coverage
reanalyze_check_zoning_violations(prop) ==
    LET zone == GetStr(prop.zoning, NoneStr)
        known == IF prop.lot_coverage_pct = MissingKey
                 THEN [prop EXCEPT !.lot_coverage_pct = 0] ELSE prop
    IN  IF ~TruthyStr(zone) \/ ~HasKey(zoning_rules, zone)
        THEN << >>
        ELSE apply_rules(Get(zoning_rules, zone), known)

\* reanalyze_with_corrected_rules.py lines 68-94
reanalyze_step(acc, prop) ==
    violations_step(acc, prop, reanalyze_check_zoning_violations(prop),
                    PARALLEL_EXAMPLE_CAP)

RECURSIVE analyze_violations_loop(_, _)
analyze_violations_loop(acc, props) ==
    IF props = << >>
    THEN acc
    ELSE analyze_violations_loop(analyze_violations_step(acc, Head(props)), Tail(props))

RECURSIVE analyze_properties_loop(_, _)
analyze_properties_loop(acc, props) ==
    IF props = << >>
    THEN acc
    ELSE analyze_properties_loop(analyze_properties_step(acc, Head(props)), Tail(props))

\* analyze_parallel.py lines 277-319
analyze_violations(props) == analyze_violations_loop(EmptyAnalysis, props)

\* analyze_with_violations.py lines 184-226
analyze_properties(props) == analyze_properties_loop(EmptyAnalysis, props)

\* a further call that goes on counting where the earlier call stopped
calculate_zone_metrics_resumed(earlier, props) ==
    LET kept == [zone_data |->
                    [i \in DOMAIN earlier.zones |->
                        << earlier.zones[i][1],
                           [total_acres |-> 10 * earlier.zones[i][2].total_acres,
                            total_value |-> earlier.zones[i][2].total_value,
                            parcel_count |-> earlier.zones[i][2].parcel_count,
                            land_uses |-> earlier.zones[i][2].land_uses] >>],
                 total_acres |-> earlier.total_acres]
        acc == zone_metrics_loop(kept, props)
        zones == [i \in DOMAIN acc.zone_data |->
                    << acc.zone_data[i][1],
                       zone_report(acc.zone_data[i][2], acc.total_acres) >>]
    IN  [total_acres |-> acc.total_acres,
         zones |-> zones,
         most_revenue_dense_zone |-> most_revenue_dense_zone(zones)]

\* analyze_parallel.py lines 224-231, 249-252: zone_data, total_acres and
\* results are created inside the call, so a further call reads nothing of
\* what an earlier call returned
calculate_zone_metrics_again(earlier, props) == calculate_zone_metrics(props)

\* analyze_parallel.py lines 279-286: violations_by_zone and all_violations
\* are created inside the call
analyze_violations_again(earlier, props) == analyze_violations(props)

----------------------------------------------------------------------------
(* generate_comparative_report.py : generate_residential_comparison.
   The file carries its own copies of calculate_zone_metrics and
   analyze_violations (lines 13-154), the same text as analyze_parallel.py
   over the corrected rule table.

   A float quotient a / b is kept exactly, as the pair of its numerator and
   denominator (den > 0); the literal 0 of a fallback is 0 / 1. *)

Quotient(n, d) == [num |-> n, den |-> d]

Zero == Quotient(0, 1)

\* "a / b if b > 0 else 0"
ratio_or_zero(n, d) == IF d > 0 THEN Quotient(n, d) ELSE Zero

\* "p / q if q > 0 else 0" for two quotients
quotient_ratio_or_zero(p, q) ==
    IF q.num > 0 THEN Quotient(p.num * q.den, p.den * q.num) ELSE Zero

\* lines 160-161
single_family_zones == <<"R", "SRA", "SRB">>
multi_family_zones == <<"GRA", "GRB", "GRC">>

\* lines 163-179
NewGroupStats ==
    [total_acres |-> 0, total_parcels |-> 0, total_value |-> 0,
     violations |-> 0, undersized_lots |-> 0, incompatible_uses |-> 0]

\* a loop body that assigns the zone's figures instead of adding them
group_stats_step_assign(stats, zone, m, analysis) ==
    LET with_metrics ==
            IF HasKey(m.zones, zone)
            THEN [stats EXCEPT
                    !.total_acres = Get(m.zones, zone).total_acres,
                    !.total_parcels = Get(m.zones, zone).parcel_count,
                    !.total_value = Get(m.zones, zone).total_value]
            ELSE stats
    IN  IF HasKey(analysis.violations_by_zone, zone)
        THEN LET vdata == Get(analysis.violations_by_zone, zone)
             IN  [with_metrics EXCEPT
                    !.violations = vdata.parcels_with_violations,
                    !.undersized_lots =
                        GetDefault(vdata.violations_by_type, "undersized_lot", 0),
                    !.incompatible_uses =
                        GetDefault(vdata.violations_by_type, "incompatible_use", 0)]
        ELSE with_metrics

\* lines 183-192 (and 196-205): one zone of a group; violations_by_type is a
\* defaultdict(int), so a type never counted reads as 0
group_stats_step(stats, zone, m, analysis) ==
    LET with_metrics ==
            IF HasKey(m.zones, zone)
            THEN [stats EXCEPT
                    !.total_acres = @ + Get(m.zones, zone).total_acres,
                    !.total_parcels = @ + Get(m.zones, zone).parcel_count,
                    !.total_value = @ + Get(m.zones, zone).total_value]
            ELSE stats
    IN  IF HasKey(analysis.violations_by_zone, zone)
        THEN LET vdata == Get(analysis.violations_by_zone, zone)
             IN  [with_metrics EXCEPT
                    !.violations = @ + vdata.parcels_with_violations,
                    !.undersized_lots =
                        @ + GetDefault(vdata.violations_by_type, "undersized_lot", 0),
                    !.incompatible_uses =
                        @ + GetDefault(vdata.violations_by_type, "incompatible_use", 0)]
        ELSE with_metrics

RECURSIVE group_stats(_, _, _, _)
\* lines 182-192 / 195-205: the loop over the zones of one group
group_stats(stats, zones, m, analysis) ==
    IF zones = << >>
    THEN stats
    ELSE group_stats(group_stats_step(stats, Head(zones), m, analysis),
                     Tail(zones), m, analysis)

\* lines 208-215: the derived figures of one group; total_acres is in 1/100
\* acre, so the two per-acre quotients are per 1/100 acre
with_rates(stats) ==
    [total_acres |-> stats.total_acres,
     total_parcels |-> stats.total_parcels,
     total_value |-> stats.total_value,
     violations |-> stats.violations,
     undersized_lots |-> stats.undersized_lots,
     incompatible_uses |-> stats.incompatible_uses,
     revenue_density |-> ratio_or_zero(stats.total_value, stats.total_acres),
     violation_rate |-> ratio_or_zero(stats.violations * 100, stats.total_parcels),
     parcels_per_acre |-> ratio_or_zero(stats.total_parcels, stats.total_acres)]

\* the exception that ends the call, if any
NoException == "<none>"
ZeroDivisionError == "ZeroDivisionError"

\* lines 292-295: "1/value_ratio" is evaluated whenever value_ratio > 1 is false
value_lines_raise(value_ratio) ==
    IF value_ratio.num > value_ratio.den
    THEN NoException
    ELSE IF value_ratio.num = 0 THEN ZeroDivisionError ELSE NoException

\* lines 157-333: the locals of the call when it returns or raises
generate_residential_comparison(m, analysis) ==
    LET sf_stats == with_rates(group_stats(NewGroupStats, single_family_zones, m, analysis))
        mf_stats == with_rates(group_stats(NewGroupStats, multi_family_zones, m, analysis))
        value_ratio == ratio_or_zero(sf_stats.total_value, mf_stats.total_value)
    IN  [sf_stats |-> sf_stats,
         mf_stats |-> mf_stats,
         land_ratio |-> ratio_or_zero(sf_stats.total_acres, mf_stats.total_acres),
         value_ratio |-> value_ratio,
         density_ratio |->
             quotient_ratio_or_zero(mf_stats.revenue_density, sf_stats.revenue_density),
         parcel_density_ratio |->
             quotient_ratio_or_zero(mf_stats.parcels_per_acre, sf_stats.parcels_per_acre),
         raised |-> value_lines_raise(value_ratio)]

\* lines 191-192 / 204-205: subscripting the defaultdict inserts the two type
\* keys, with count 0, where a zone of either group never counted them
read_type_counts(by_type) ==
    LET first == IF HasKey(by_type, "undersized_lot")
                 THEN by_type ELSE Put(by_type, "undersized_lot", 0)
    IN  IF HasKey(first, "incompatible_use")
        THEN first ELSE Put(first, "incompatible_use", 0)

\* violations_analysis as the call leaves it
after_comparison(analysis) ==
    [analysis EXCEPT !.violations_by_zone =
        [i \in DOMAIN @ |->
            IF InList(@[i][1], single_family_zones \o multi_family_zones)
            THEN << @[i][1],
                    [@[i][2] EXCEPT !.violations_by_type = read_type_counts(@)] >>
            ELSE @[i]]]

----------------------------------------------------------------------------
(* infrastructure_burden_analysis.py : calculate_infrastructure_metrics *)

\* line 75: "$500/linear foot for roads + utilities"
COST_PER_LINEAR_FOOT == 500

\* lines 22-28: the default-factory entry of zone_data
NewInfrastructureData == [total_acres |-> 0, total_value |-> 0, parcel_count |-> 0]

\* lines 30-40: one iteration of the accumulation loop
infrastructure_step(zone_data, prop) ==
    IF Skipped(prop)
    THEN zone_data
    ELSE LET old == GetDefault(zone_data, prop.zoning, NewInfrastructureData)
         IN  Put(zone_data, prop.zoning,
                 [total_acres |-> old.total_acres + prop.parcel_area_acres,
                  total_value |-> old.total_value + prop.total_value,
                  parcel_count |-> old.parcel_count + 1])

RECURSIVE infrastructure_loop(_, _)
infrastructure_loop(zone_data, props) ==
    IF props = << >>
    THEN zone_data
    ELSE infrastructure_loop(infrastructure_step(zone_data, Head(props)), Tail(props))

\* line 71: min_frontage * parcels if min_frontage else 0
estimated_linear_infrastructure(min_frontage, parcels) ==
    IF Truthy(min_frontage) THEN min_frontage * parcels ELSE 0

\* a cost estimate at a tenth of the unit rate
est_infrastructure_cost_per_parcel_cheap(min_frontage) ==
    IF Truthy(min_frontage) THEN min_frontage * 50 ELSE 0

\* line 75: min_frontage * 500 if min_frontage else 0
est_infrastructure_cost_per_parcel(min_frontage) ==
    IF Truthy(min_frontage) THEN min_frontage * COST_PER_LINEAR_FOOT ELSE 0

\* lines 84-87, 104: round(revenue_per_parcel / cost, 2), in 1/100; the
\* quotient value / parcels enters unrounded
fiscal_ratio(value, parcels, cost) ==
    IF cost > 0 THEN RoundRatio(value, parcels * cost, 100) ELSE 0

\* lines 49-105: the reported entry of one zone.  total_acres in 1/100 acre,
\* avg_lot_size_acres and density_factor in 1/1000, parcels_per_acre and
\* fiscal_sustainability_ratio in 1/100, the other quotients in whole units
infrastructure_report(rules, data) ==
    LET parcels == data.parcel_count
        acres == data.total_acres
        value == data.total_value
        min_frontage == rules.min_frontage_ft
        cost == est_infrastructure_cost_per_parcel(min_frontage)
    IN  [zone_name |-> rules.name,
         total_acres |-> RoundHalfEven(acres, 10),
         parcel_count |-> parcels,
         total_value |-> value,
         avg_lot_size_sqft |-> RoundRatio(acres * SQFT_PER_ACRE, 1000 * parcels, 1),
         avg_lot_size_acres |-> RoundRatio(acres, parcels, 1),
         parcels_per_acre |-> RoundRatio(parcels * 1000, acres, 100),
         revenue_per_parcel |-> RoundRatio(value, parcels, 1),
         revenue_per_acre |-> RoundRatio(value * 1000, acres, 1),
         min_frontage_ft |-> min_frontage,
         min_lot_size_sqft |-> rules.min_lot_size_sqft,
         estimated_linear_infrastructure_ft |->
             estimated_linear_infrastructure(min_frontage, parcels),
         est_infrastructure_cost_per_parcel |-> cost,
         density_factor |-> RoundRatio(acres, parcels, 1),
         fiscal_sustainability_ratio |-> fiscal_ratio(value, parcels, cost)]

\* lines 45-55: the zones that get an entry
infrastructure_reported(zone, data) ==
    HasKey(zoning_rules, zone) /\ data.parcel_count # 0 /\ data.total_acres # 0

\* lines 13-107
calculate_infrastructure_metrics(props) ==
    LET zone_data == infrastructure_loop(<< >>, props)
        kept == SelectSeq(zone_data, LAMBDA item : infrastructure_reported(item[1], item[2]))
    IN  [i \in DOMAIN kept |->
            << kept[i][1], infrastructure_report(Get(zoning_rules, kept[i][1]), kept[i][2]) >>]

----------------------------------------------------------------------------
(* Inputs of the evaluator runs *)

\* land-use descriptions: None, missing, '', and texts of each classifier outcome
DESC_SINGLE_FAM == <<"S","i","n","g","l","e"," ","F","a","m"," ","R","e","s">>
DESC_CONDO == <<"C","O","N","D","O">>
DESC_VACANT_LAND == <<"V","A","C","A","N","T"," ","L","A","N","D">>
DESC_VACANT_COMMERCIAL == <<"V","A","C","A","N","T"," ","C","O","M","M","E","R","C","I","A","L">>
DESC_FARM == <<"F","A","R","M">>
DESC_MUNICIPAL == <<"M","u","n","i","c","i","p","a","l">>
DESC_RETAIL == <<"R","E","T","A","I","L">>

EvalDescs == {NoneText, AbsentText, << >>, DESC_SINGLE_FAM, DESC_CONDO,
              DESC_VACANT_LAND, DESC_VACANT_COMMERCIAL, DESC_FARM,
              DESC_MUNICIPAL, DESC_RETAIL}

\* zone codes: every key of the rule table, an unknown code, '', None, missing
EvalZones == Keys(ZONING_RULES) \cup {"XYZ", "", NoneStr, Absent}

\* parcel areas around the minimum lot sizes of SRB, GRA and R (1/100 sqft)
EvalAreas ==
    {0, MissingKey} \cup
    UNION {{ToCentiSqft(m) - 100, ToCentiSqft(m) - 1, ToCentiSqft(m), ToCentiSqft(m) + 1} :
             m \in {Get(ZONING_RULES, z).min_lot_size_sqft : z \in {"SRB", "GRA", "R"}}}

\* lot coverages around the maximum coverages of SRA, SRB and R (1/100 percent)
EvalCoverages ==
    {0, MissingKey} \cup
    UNION {{ToCentiPct(m) - 1, ToCentiPct(m), ToCentiPct(m) + 10} :
             m \in {Get(ZONING_RULES, z).max_lot_coverage_pct : z \in {"SRA", "SRB", "R"}}}

EvalProperties ==
    [parcel_id : {"P1"}, address : {"1 Main St"},
     zoning : EvalZones, land_use_desc : EvalDescs,
     total_value : {300000}, parcel_area_acres : {200},
     parcel_area_sqft : EvalAreas, lot_coverage_pct : EvalCoverages]

\* values of the result variables before the operation has run
NotCalled == <<[type |-> "<not called>"]>>
NoResult == [state |-> "<not run>"]
NoAnalysis == [state |-> "<not run>"]
NoInfrastructure == << <<"<not run>", [state |-> "<not run>"]>> >>

\* analyze_parallel.py line 19
MAX_CONCURRENT_REQUESTS == 20

\* fetch_all_properties has returned (main line 424): no task is left, every
\* permit is back, and the list it built is the collection under analysis
FetchReturned ==
    /\ fetch_parcels = << >>
    /\ tasks = EmptyBag
    /\ semaphore = MAX_CONCURRENT_REQUESTS
    /\ completed = << >>
    /\ awaited = 0
    /\ fetch_pc = "returned"

----------------------------------------------------------------------------
(* Evaluator runs: one call of check_zoning_violations on any property *)

InitEval ==
    /\ property \in EvalProperties
    /\ violations = NotCalled
    /\ properties = << >>
    /\ metrics = NoResult
    /\ violations_analysis = NoAnalysis
    /\ awv_analysis = NoAnalysis
    /\ pos = 0
    /\ pass = "none"
    /\ zoning_rules = ZONING_RULES
    /\ classification = NotClassified
    /\ comparison = NoResult
    /\ infrastructure = NoInfrastructure
    /\ runs = 0
    /\ FetchReturned

CheckZoningViolations ==
    /\ violations = NotCalled
    /\ violations' = check_zoning_violations(property)
    /\ classification' = classified_land_use(property)
    /\ UNCHANGED <<property, properties, metrics, violations_analysis,
                   awv_analysis, pos, pass,
                   zoning_rules, comparison, infrastructure, runs,
                   fetch_parcels, tasks, semaphore, completed, awaited, fetch_pc>>

NextEval == CheckZoningViolations

SpecEval == InitEval /\ [][NextEval]_vars

----------------------------------------------------------------------------
(* Claims about the evaluator *)

Called == violations # NotCalled

\* the property carries both numeric keys the evaluator subscripts
Complete(prop) ==
    prop.parcel_area_sqft # MissingKey /\ prop.lot_coverage_pct # MissingKey

KnownZone(prop) == HasKey(ZONING_RULES, prop.zoning)

OfType(vs, t) == SelectSeq(vs, LAMBDA v : v.type = t)

\* C1: in a zone whose rule sets min_lot_size_sqft, undersized_lot is emitted
\* exactly when parcel_area_sqft is strictly below the minimum (never at the
\* minimum itself), and its deficit is the minimum minus the area.
C1_UndersizedLotIffBelowMinimum ==
    (Called /\ Complete(property) /\ KnownZone(property)
        /\ Truthy(Get(ZONING_RULES, property.zoning).min_lot_size_sqft)) =>
    LET minimum == ToCentiSqft(Get(ZONING_RULES, property.zoning).min_lot_size_sqft)
        found == OfType(violations, "undersized_lot")
    IN  /\ Len(found) = (IF property.parcel_area_sqft < minimum THEN 1 ELSE 0)
        /\ property.parcel_area_sqft = minimum => found = << >>
        /\ \A i \in DOMAIN found :
              found[i].deficit = minimum - property.parcel_area_sqft

\* 14999 sqft against SRB's 15000: one undersized_lot with deficit 1 sqft
C1_Witness ==
    /\ Called /\ property.zoning = "SRB"
    /\ property.parcel_area_sqft = ToCentiSqft(14999)
    /\ property.lot_coverage_pct = 0
    /\ Len(OfType(violations, "undersized_lot")) = 1
    /\ OfType(violations, "undersized_lot")[1].deficit = ToCentiSqft(1)

\* C2: in a zone of the rule table, excess_lot_coverage is emitted exactly when
\* the rule sets max_lot_coverage_pct, lot_coverage_pct > 0 and lot_coverage_pct
\* is strictly above the maximum; excess_pct is the coverage minus the maximum.
C2_ExcessCoverageIffAboveMaximum ==
    (Called /\ Complete(property) /\ KnownZone(property)) =>
    LET rule == Get(ZONING_RULES, property.zoning)
        maximum == ToCentiPct(rule.max_lot_coverage_pct)
        found == OfType(violations, "excess_lot_coverage")
        expected == /\ rule.max_lot_coverage_pct # None
                    /\ rule.max_lot_coverage_pct # 0
                    /\ property.lot_coverage_pct > 0
                    /\ property.lot_coverage_pct > maximum
    IN  /\ Len(found) = (IF expected THEN 1 ELSE 0)
        /\ property.lot_coverage_pct = maximum => found = << >>
        /\ \A i \in DOMAIN found :
              found[i].excess_pct = property.lot_coverage_pct - maximum

\* 10.1 percent against SRA's 10: one excess_lot_coverage with excess 0.1
C2_Witness ==
    /\ Called /\ property.zoning = "SRA"
    /\ property.lot_coverage_pct = 1010
    /\ property.parcel_area_sqft # MissingKey
    /\ Len(OfType(violations, "excess_lot_coverage")) = 1
    /\ OfType(violations, "excess_lot_coverage")[1].excess_pct = 10

\* C3: in a zone of the rule table, exactly one incompatible_use (carrying the
\* classified use) is emitted when the classified use is neither unknown nor
\* vacant and the non-empty allowed_uses lacks it, and none otherwise.
C3_IncompatibleUseIffNotAllowed ==
    (Called /\ Complete(property) /\ KnownZone(property)) =>
    LET rule == Get(ZONING_RULES, property.zoning)
        use == classify_land_use(GetText(property.land_use_desc, << >>))
        found == OfType(violations, "incompatible_use")
        expected == /\ use \notin {"unknown", "vacant"}
                    /\ rule.allowed_uses # << >>
                    /\ \A i \in DOMAIN rule.allowed_uses : rule.allowed_uses[i] # use
    IN  /\ Len(found) = (IF expected THEN 1 ELSE 0)
        /\ \A i \in DOMAIN found : found[i].current_use = use
        /\ use \in {"unknown", "vacant"} => found = << >>

\* a condominium (multi_family) in zone R, and a vacant lot in zone R
C3_Witness ==
    /\ Called /\ property.zoning = "R" /\ Complete(property)
    /\ property.land_use_desc = DESC_CONDO
    /\ Len(OfType(violations, "incompatible_use")) = 1
    /\ OfType(violations, "incompatible_use")[1].current_use = "multi_family"

\* C4: with the zoning key missing, None, '' or not in the rule table the call
\* returns the empty list without raising, whatever the other fields hold.
C4_NoZoneNoViolations ==
    (Called /\ ~KnownZone(property)) => violations = << >>

\* an unknown zone code on a record that even lacks its numeric keys
C4_Witness ==
    /\ Called /\ property.zoning = "XYZ"
    /\ property.parcel_area_sqft = MissingKey
    /\ property.land_use_desc = DESC_FARM
    /\ violations = << >>

----------------------------------------------------------------------------
(* Inputs of the aggregation runs: records as extract_property_info builds
   them, every key present *)

\* 1/1000 acre to 1/100 sqft
AcresToSqft(acres) == (acres * SQFT_PER_ACRE) \div 10

Record(zone, street, acres, value, desc, coverage) ==
    [parcel_id |-> 0, address |-> street, zoning |-> zone, land_use_desc |-> desc,
     total_value |-> value, parcel_area_acres |-> acres,
     parcel_area_sqft |-> AcresToSqft(acres), lot_coverage_pct |-> coverage]

\* 8,886 sqft in SRB: undersized under the corrected table (15,000), not under
\* the earlier one (7,500)
KIND_SRB_SMALL == Record("SRB", "Elm St", 204, 300000, DESC_SINGLE_FAM, 0)
\* 4,356 sqft in SRB: undersized under both tables
KIND_SRB_TINY == Record("SRB", "Oak St", 100, 250000, DESC_SINGLE_FAM, 0)
\* a farm covering 30 percent of a GRA lot: incompatible use under both tables,
\* excess coverage under the corrected one (25) only
KIND_GRA_FARM == Record("GRA", "Mill Rd", 204, 500000, DESC_FARM, 3000)
\* a zone code that is in neither rule table
KIND_XYZ == Record("XYZ", "Dock Ln", 204, 100000, DESC_CONDO, 0)
\* zoningCode is null in the source data
KIND_NO_ZONE == Record(NoneStr, "Bay Rd", 500, 70000, DESC_RETAIL, 0)
\* a municipal sliver without area, value or description
KIND_M_EMPTY == Record("M", "Town Sq", 0, 0, NoneText, 0)

AggPool == {KIND_SRB_SMALL, KIND_SRB_TINY, KIND_GRA_FARM, KIND_XYZ,
            KIND_NO_ZONE, KIND_M_EMPTY, NoneProperty}

\* a condominium covering 30 percent of a GRA lot: excess coverage under the
\* corrected table (25), no violation under the earlier one (50)
KIND_GRA_CONDO == Record("GRA", "Pier Rd", 204, 400000, DESC_CONDO, 3000)

PassPool == {KIND_SRB_TINY, KIND_GRA_CONDO}

\* longest collection of the whole-run specification
MaxProps == 4
\* longest collection of the reordering specification
MaxOrderProps == 3
\* the stepwise pass consumes up to this many items more than its example cap
MaxPastCap == 2

\* the record of one parcel: parcel ids are unique within a collection
MakeProperty(kind, id) ==
    IF kind = NoneProperty THEN kind ELSE [kind EXCEPT !.parcel_id = id]

Collections(pool, maxLen) ==
    UNION {{[i \in 1..n |-> MakeProperty(ks[i], i)] : ks \in [1..n -> pool]} :
             n \in 0..maxLen}

----------------------------------------------------------------------------
(* Whole runs of the aggregators over one collection *)

InitAgg ==
    /\ properties \in Collections(AggPool, MaxProps)
    /\ property = NoneProperty
    /\ violations = NotCalled
    /\ metrics = NoResult
    /\ violations_analysis = NoAnalysis
    /\ awv_analysis = NoAnalysis
    /\ pos = 0
    /\ pass = "none"
    /\ zoning_rules = ZONING_RULES
    /\ classification = NotClassified
    /\ comparison = NoResult
    /\ infrastructure = NoInfrastructure
    /\ runs = 0
    /\ FetchReturned

CalculateZoneMetrics ==
    /\ pass = "none"
    /\ metrics = NoResult
    /\ metrics' = calculate_zone_metrics(properties)
    /\ UNCHANGED <<property, violations, properties, violations_analysis,
                   awv_analysis, pos, pass,
                   zoning_rules, classification, comparison, infrastructure, runs,
                   fetch_parcels, tasks, semaphore, completed, awaited, fetch_pc>>

AnalyzeViolations ==
    /\ pass = "none"
    /\ violations_analysis = NoAnalysis
    /\ violations_analysis' = analyze_violations(properties)
    /\ UNCHANGED <<property, violations, properties, metrics, awv_analysis, pos, pass,
                   zoning_rules, classification, comparison, infrastructure, runs,
                   fetch_parcels, tasks, semaphore, completed, awaited, fetch_pc>>

AnalyzeProperties ==
    /\ pass = "none"
    /\ awv_analysis = NoAnalysis
    /\ awv_analysis' = analyze_properties(properties)
    /\ UNCHANGED <<property, violations, properties, metrics, violations_analysis,
                   pos, pass,
                   zoning_rules, classification, comparison, infrastructure, runs,
                   fetch_parcels, tasks, semaphore, completed, awaited, fetch_pc>>

NextAgg == CalculateZoneMetrics \/ AnalyzeViolations \/ AnalyzeProperties

SpecAgg == InitAgg /\ [][NextAgg]_vars

----------------------------------------------------------------------------
(* Runs over differently ordered collections.  fetch_all_properties appends
   the records in completion order (asyncio.as_completed, lines 165-168), so
   the same parcels reach the aggregators in any order. *)

\* the records whose order is permuted: two of one zone, one of another and
\* one without zoning code
OrderPool == {KIND_SRB_SMALL, KIND_SRB_TINY, KIND_GRA_FARM, KIND_NO_ZONE}

InitOrder ==
    /\ properties \in Collections(OrderPool, MaxOrderProps)
    /\ property = NoneProperty
    /\ violations = NotCalled
    /\ metrics = NoResult
    /\ violations_analysis = NoAnalysis
    /\ awv_analysis = NoAnalysis
    /\ pos = 0
    /\ pass = "none"
    /\ zoning_rules = ZONING_RULES
    /\ classification = NotClassified
    /\ comparison = NoResult
    /\ infrastructure = NoInfrastructure
    /\ runs = 0
    /\ FetchReturned

\* two neighbouring fetches complete the other way round
Reorder ==
    /\ pass = "none"
    /\ \E i \in 1..(Len(properties) - 1) :
          properties' = [properties EXCEPT ![i] = properties[i + 1],
                                           ![i + 1] = properties[i]]
    /\ UNCHANGED <<property, violations, metrics, violations_analysis,
                   awv_analysis, pos, pass,
                   zoning_rules, classification, comparison, infrastructure, runs,
                   fetch_parcels, tasks, semaphore, completed, awaited, fetch_pc>>

NextOrder == CalculateZoneMetrics \/ AnalyzeViolations \/ Reorder

SpecOrder == InitOrder /\ [][NextOrder]_vars

----------------------------------------------------------------------------
(* The aggregation pass, one loop iteration per step.  The loop never looks
   ahead, so the item is drawn when the loop reaches it: properties holds the
   items consumed so far. *)

InitPass ==
    /\ pass \in {"analyze_violations", "analyze_properties"}
    /\ properties = << >>
    /\ pos = 0
    /\ violations_analysis = (IF pass = "analyze_violations"
                              THEN EmptyAnalysis ELSE NoAnalysis)
    /\ awv_analysis = (IF pass = "analyze_properties"
                       THEN EmptyAnalysis ELSE NoAnalysis)
    /\ property = NoneProperty
    /\ violations = NotCalled
    /\ metrics = NoResult
    /\ zoning_rules = ZONING_RULES
    /\ classification = NotClassified
    /\ comparison = NoResult
    /\ infrastructure = NoInfrastructure
    /\ runs = 0
    /\ FetchReturned

AnalyzeViolationsIteration ==
    /\ pass = "analyze_violations"
    /\ pos < PARALLEL_EXAMPLE_CAP + MaxPastCap
    /\ \E kind \in PassPool :
          LET prop == MakeProperty(kind, pos + 1)
          IN  /\ properties' = Append(properties, prop)
              /\ violations_analysis' = analyze_violations_step(violations_analysis, prop)
    /\ pos' = pos + 1
    /\ UNCHANGED <<property, violations, metrics, awv_analysis, pass,
                   zoning_rules, classification, comparison, infrastructure, runs,
                   fetch_parcels, tasks, semaphore, completed, awaited, fetch_pc>>

AnalyzePropertiesIteration ==
    /\ pass = "analyze_properties"
    /\ pos < AWV_EXAMPLE_CAP + MaxPastCap
    /\ \E kind \in PassPool :
          LET prop == MakeProperty(kind, pos + 1)
          IN  /\ properties' = Append(properties, prop)
              /\ awv_analysis' = analyze_properties_step(awv_analysis, prop)
    /\ pos' = pos + 1
    /\ UNCHANGED <<property, violations, metrics, violations_analysis, pass,
                   zoning_rules, classification, comparison, infrastructure, runs,
                   fetch_parcels, tasks, semaphore, completed, awaited, fetch_pc>>

NextPass == AnalyzeViolationsIteration \/ AnalyzePropertiesIteration

SpecPass == InitPass /\ [][NextPass]_vars

----------------------------------------------------------------------------
(* Claims about the aggregators *)

MetricsDone == metrics # NoResult
AnalysisDone == violations_analysis # NoAnalysis
AwvDone == awv_analysis # NoAnalysis

\* positions of the collection that hold a record with zoning code z
WithZone(props, z) ==
    {i \in DOMAIN props : props[i] # NoneProperty /\ props[i].zoning = z}

\* the record at position i has no zoning code: item None, key missing, None or ''
NoZoning(props, i) ==
    props[i] = NoneProperty \/ props[i].zoning \in {Absent, NoneStr, ""}

RECURSIVE SumSeq(_)
SumSeq(numbers) ==
    IF numbers = << >> THEN 0 ELSE Head(numbers) + SumSeq(Tail(numbers))

\* acres of all records that carry a zoning code
ZonedAcres(props) ==
    SumSeq([i \in DOMAIN props |->
              IF NoZoning(props, i) THEN 0 ELSE props[i].parcel_area_acres])

AbsVal(x) == IF x < 0 THEN -x ELSE x

ReportedAcres(m) == SumSeq([i \in DOMAIN m.zones |-> m.zones[i][2].total_acres])

\* C6 as claimed: the reported per-zone total_acres add up to the top-level
\* total_acres.
C6_ReportedAcresAddUp ==
    MetricsDone => 10 * ReportedAcres(metrics) = metrics.total_acres

\* C6 amended: the top-level total_acres is the unrounded sum over the zoned
\* records and every zone reports its own sum rounded to 2 decimals, so the
\* reported values add up to total_acres within 0.005 acre per zone.
C6_ReportedAcresWithinRounding ==
    MetricsDone =>
        /\ metrics.total_acres = ZonedAcres(properties)
        /\ AbsVal(10 * ReportedAcres(metrics) - metrics.total_acres)
              <= 5 * Len(metrics.zones)

\* two zones whose rounded acres do not add up to the unrounded total
C6_Witness ==
    /\ MetricsDone
    /\ Len(metrics.zones) >= 2
    /\ 10 * ReportedAcres(metrics) # metrics.total_acres

\* sum of the reported percent_of_land, in 1/100 percent
ReportedPercent(m) == SumSeq([i \in DOMAIN m.zones |-> m.zones[i][2].percent_of_land])

\* C7: whenever total_acres > 0 the reported percent_of_land values add up to
\* 100 within the rounding of each value to 2 decimals (0.005 per zone).
C7_PercentAddsUpTo100 ==
    (MetricsDone /\ metrics.total_acres > 0) =>
        2 * AbsVal(ReportedPercent(metrics) - 10000) <= Len(metrics.zones)

\* three zones of equal area: 3 x 33.33 = 99.99
C7_Witness ==
    /\ MetricsDone /\ metrics.total_acres > 0
    /\ Len(metrics.zones) = 3
    /\ ReportedPercent(metrics) = 9999

\* the counts of one analysis, without examples and without dict order
CountsOf(analysis) ==
    {<<analysis.violations_by_zone[i][1],
       analysis.violations_by_zone[i][2].total_parcels,
       analysis.violations_by_zone[i][2].parcels_with_violations,
       Items(analysis.violations_by_zone[i][2].violations_by_type)>> :
         i \in DOMAIN analysis.violations_by_zone}

ViolationTypes == {"undersized_lot", "excess_lot_coverage", "incompatible_use"}

\* number of violations of type t that the corrected-table evaluator finds on
\* the records of zone z
TypeTotal(props, z, t) ==
    SumSeq([i \in DOMAIN props |->
              IF i \in WithZone(props, z)
              THEN Len(OfType(check_zoning_violations(props[i]), t)) ELSE 0])

\* C8 as claimed: analyze_violations counts every zone exactly, and
\* analyze_properties (cap 5) reports the same counts and the same
\* all_violations as analyze_violations (cap 10).
C8_CountsExactAndSameForBothCaps ==
    (AnalysisDone /\ AwvDone) =>
    LET by_zone == violations_analysis.violations_by_zone
    IN  /\ \A z \in Keys(by_zone) :
              /\ Get(by_zone, z).total_parcels = Cardinality(WithZone(properties, z))
              /\ Get(by_zone, z).parcels_with_violations =
                    Cardinality({i \in WithZone(properties, z) :
                                   check_zoning_violations(properties[i]) # << >>})
              /\ \A t \in ViolationTypes :
                    GetDefault(Get(by_zone, z).violations_by_type, t, 0)
                        = TypeTotal(properties, z, t)
        /\ CountsOf(awv_analysis) = CountsOf(violations_analysis)
        /\ awv_analysis.all_violations = violations_analysis.all_violations

----------------------------------------------------------------------------
(* Claims about the stepwise pass *)

\* the accumulator, cap and evaluator of the pass that is running
PassAcc == IF pass = "analyze_properties" THEN awv_analysis ELSE violations_analysis

PassCap == IF pass = "analyze_properties" THEN AWV_EXAMPLE_CAP ELSE PARALLEL_EXAMPLE_CAP

PassCheck(prop) ==
    IF pass = "analyze_properties"
    THEN awv_check_zoning_violations(prop)
    ELSE check_zoning_violations(prop)

Min(a, b) == IF a < b THEN a ELSE b

RECURSIVE ViolatorsOf(_, _)
\* the violating records of zone z among props, in input order, as example
\* entries
ViolatorsOf(z, props) ==
    IF props = << >>
    THEN << >>
    ELSE LET p == Head(props)
             rest == ViolatorsOf(z, Tail(props))
         IN  IF p = NoneProperty \/ p.zoning # z
             THEN rest
             ELSE LET found == PassCheck(p)
                  IN  IF found = << >>
                      THEN rest
                      ELSE <<[address |-> p.address, parcel_id |-> p.parcel_id,
                              violations |-> found]>> \o rest

IsPrefix(short, long) ==
    Len(short) <= Len(long) /\ short = SubSeq(long, 1, Len(short))

C9_State ==
    pass # "none" =>
    \A z \in Keys(PassAcc.violations_by_zone) :
        LET entry == Get(PassAcc.violations_by_zone, z)
            violators == ViolatorsOf(z, properties)
        IN  /\ Len(entry.examples) = Min(PassCap, entry.parcels_with_violations)
            /\ entry.parcels_with_violations = Len(violators)
            /\ entry.examples = SubSeq(violators, 1, Min(PassCap, Len(violators)))

C9_Step ==
    pass # "none" =>
    \A z \in Keys(PassAcc.violations_by_zone) :
        LET old == Get(PassAcc.violations_by_zone, z)
            new == Get(PassAcc'.violations_by_zone, z)
        IN  /\ IsPrefix(old.examples, new.examples)
            /\ Len(old.examples) = PassCap => new.examples = old.examples

\* C9: at every step and for every zone, examples holds min(cap, parcels_with_
\* violations) entries, namely the first violating records of the zone in input
\* order; a stored example is never removed, replaced or moved, and violating
\* records met at the cap are counted without being stored.
C9_ExamplesAreFirstUpToCap == []C9_State /\ [][C9_Step]_vars

\* analyze_violations has met an eleventh violating SRB record: counted, not stored
C9_Witness ==
    /\ pass = "analyze_violations"
    /\ HasKey(violations_analysis.violations_by_zone, "SRB")
    /\ Get(violations_analysis.violations_by_zone, "SRB").parcels_with_violations
          = PARALLEL_EXAMPLE_CAP + 1
    /\ Len(Get(violations_analysis.violations_by_zone, "SRB").examples)
          = PARALLEL_EXAMPLE_CAP

----------------------------------------------------------------------------
(* Claims about the input order *)

\* the per-zone tallies of a metrics result, without dict order
TalliesOf(m) ==
    {<<m.zones[i][1], m.zones[i][2].total_acres, m.zones[i][2].total_value,
       m.zones[i][2].parcel_count, Items(m.zones[i][2].land_uses)>> :
         i \in DOMAIN m.zones}

\* C10: the per-zone total_acres, total_value, parcel_count and land_uses of
\* calculate_zone_metrics and the per-zone total_parcels, parcels_with_violations
\* and violations_by_type of analyze_violations are the same for every ordering
\* of the collection: a result computed on one ordering agrees with the result
\* of the ordering the collection has now.
C10_CountsIndependentOfOrder ==
    /\ MetricsDone => TalliesOf(metrics) = TalliesOf(calculate_zone_metrics(properties))
    /\ AnalysisDone => CountsOf(violations_analysis) = CountsOf(analyze_violations(properties))

\* both results stem from an ordering other than the present one: the zone
\* order of the metrics and the order of all_violations differ
C10_Witness ==
    /\ MetricsDone /\ AnalysisDone
    /\ metrics.zones # calculate_zone_metrics(properties).zones
    /\ violations_analysis.all_violations # analyze_violations(properties).all_violations
    /\ Len(violations_analysis.all_violations) >= 2

----------------------------------------------------------------------------
(* Report runs: the aggregators, then the derived computations over their
   results (generate_comparative_report.py main, lines 381-389, and
   infrastructure_burden_analysis.py main, line 326) *)

\* five acres of rural residence, no frontage requirement in the rule table
KIND_R_ESTATE == Record("R", "Farm Ln", 5000, 90001, DESC_SINGLE_FAM, 0)
\* a GRB record without area and without value
KIND_GRB_EMPTY == Record("GRB", "Low St", 0, 0, DESC_SINGLE_FAM, 0)
\* a GRC lot assessed at nothing
KIND_GRC_FREE == Record("GRC", "Hill St", 100, 0, DESC_SINGLE_FAM, 0)

ReportPool == {KIND_SRB_SMALL, KIND_R_ESTATE, KIND_GRA_FARM, KIND_GRB_EMPTY,
               KIND_GRC_FREE, KIND_XYZ, KIND_NO_ZONE}

\* longest collection of the report specification
MaxReportProps == 3

InitReport ==
    /\ properties \in Collections(ReportPool, MaxReportProps)
    /\ property = NoneProperty
    /\ violations = NotCalled
    /\ metrics = NoResult
    /\ violations_analysis = NoAnalysis
    /\ awv_analysis = NoAnalysis
    /\ pos = 0
    /\ pass = "none"
    /\ zoning_rules = ZONING_RULES
    /\ classification = NotClassified
    /\ comparison = NoResult
    /\ infrastructure = NoInfrastructure
    /\ runs = 0
    /\ FetchReturned

GenerateResidentialComparison ==
    /\ metrics # NoResult
    /\ violations_analysis # NoAnalysis
    /\ comparison = NoResult
    /\ comparison' = generate_residential_comparison(metrics, violations_analysis)
    /\ violations_analysis' = after_comparison(violations_analysis)
    /\ UNCHANGED <<property, violations, properties, metrics, awv_analysis, pos, pass,
                   zoning_rules, classification, infrastructure, runs,
                   fetch_parcels, tasks, semaphore, completed, awaited, fetch_pc>>

CalculateInfrastructureMetrics ==
    /\ infrastructure = NoInfrastructure
    /\ infrastructure' = calculate_infrastructure_metrics(properties)
    /\ UNCHANGED <<property, violations, properties, metrics, violations_analysis,
                   awv_analysis, pos, pass, zoning_rules, classification,
                   comparison, runs,
                   fetch_parcels, tasks, semaphore, completed, awaited, fetch_pc>>

NextReport ==
    \/ CalculateZoneMetrics
    \/ AnalyzeViolations
    \/ GenerateResidentialComparison
    \/ CalculateInfrastructureMetrics

SpecReport == InitReport /\ [][NextReport]_vars

----------------------------------------------------------------------------
(* Claims about the derived computations *)

ComparisonDone == comparison # NoResult
InfrastructureDone == infrastructure # NoInfrastructure

\* C11 as claimed: each of the four ratios is 0 when its denominator is 0, and
\* the comparison is produced without a division by zero whatever the metrics
\* hold.
C11_RatiosFallBackAndNoFault ==
    ComparisonDone =>
        /\ comparison.mf_stats.total_acres = 0 => comparison.land_ratio = Zero
        /\ comparison.mf_stats.total_value = 0 => comparison.value_ratio = Zero
        /\ comparison.sf_stats.revenue_density.num = 0 => comparison.density_ratio = Zero
        /\ comparison.sf_stats.parcels_per_acre.num = 0
              => comparison.parcel_density_ratio = Zero
        /\ comparison.raised # ZeroDivisionError

\* the zones of a group, each mapped to its figure in dict d (0 when absent)
GroupSum(zones, d, Figure(_)) ==
    SumSeq([i \in DOMAIN zones |->
              IF HasKey(d, zones[i]) THEN Figure(Get(d, zones[i])) ELSE 0])

GroupFiguresAreSums(stats, zones) ==
    LET by_zone == violations_analysis.violations_by_zone
    IN  /\ stats.total_acres = GroupSum(zones, metrics.zones, LAMBDA e : e.total_acres)
        /\ stats.total_parcels = GroupSum(zones, metrics.zones, LAMBDA e : e.parcel_count)
        /\ stats.total_value = GroupSum(zones, metrics.zones, LAMBDA e : e.total_value)
        /\ stats.violations =
              GroupSum(zones, by_zone, LAMBDA e : e.parcels_with_violations)
        /\ stats.undersized_lots =
              GroupSum(zones, by_zone,
                       LAMBDA e : GetDefault(e.violations_by_type, "undersized_lot", 0))
        /\ stats.incompatible_uses =
              GroupSum(zones, by_zone,
                       LAMBDA e : GetDefault(e.violations_by_type, "incompatible_use", 0))
        /\ stats.violation_rate =
              (IF stats.total_parcels = 0
               THEN Zero ELSE Quotient(100 * stats.violations, stats.total_parcels))
        /\ 0 <= stats.violation_rate.num
        /\ stats.violation_rate.num <= 100 * stats.violation_rate.den

\* C19: each group's total_acres, total_parcels and total_value are the sums
\* over its zones present in the metrics, its violation and per-type counts the
\* sums over its zones present in violations_by_zone, and its violation_rate is
\* 100 * violations / parcels, or 0 without parcels, and lies within 0..100.
C19_GroupFiguresAreSums ==
    ComparisonDone =>
        /\ GroupFiguresAreSums(comparison.sf_stats, single_family_zones)
        /\ GroupFiguresAreSums(comparison.mf_stats, multi_family_zones)

\* two single-family zones present, one of their two parcels in violation, and
\* a multi-family zone with an incompatible use
C19_Witness ==
    /\ ComparisonDone
    /\ HasKey(metrics.zones, "R") /\ HasKey(metrics.zones, "SRB")
    /\ comparison.sf_stats.total_parcels = 2
    /\ comparison.sf_stats.violation_rate = Quotient(100, 2)
    /\ comparison.sf_stats.undersized_lots = 1
    /\ comparison.mf_stats.incompatible_uses = 1
    /\ comparison.raised = NoException

----------------------------------------------------------------------------
(* Further claims about calculate_zone_metrics *)

\* sums over the records of zone z, taken from the collection itself
ZoneAcres(props, z) ==
    SumSeq([i \in DOMAIN props |->
              IF i \in WithZone(props, z) THEN props[i].parcel_area_acres ELSE 0])

ZoneValue(props, z) ==
    SumSeq([i \in DOMAIN props |->
              IF i \in WithZone(props, z) THEN props[i].total_value ELSE 0])

\* C12: percent_of_land of every zone is 0 when the grand total of acres is 0
\* and revenue_density of a zone is 0 when the zone's acres are 0; otherwise
\* they are zone_acres / grand_total * 100 and zone_value / zone_acres, to the
\* 2 decimals of the report; the call yields a result on every collection,
\* the empty one and those without any area included.
C12_ZeroDenominatorsYieldZero ==
    MetricsDone =>
    LET grand_total == ZonedAcres(properties)
    IN  /\ metrics.total_acres = grand_total
        /\ \A z \in Keys(metrics.zones) :
              LET entry == Get(metrics.zones, z)
                  zone_acres == ZoneAcres(properties, z)
                  zone_value == ZoneValue(properties, z)
              IN  /\ grand_total = 0 => entry.percent_of_land = 0
                  /\ zone_acres = 0 => entry.revenue_density = 0
                  /\ grand_total > 0 =>
                        2 * AbsVal(entry.percent_of_land * grand_total
                                     - zone_acres * 10000) <= grand_total
                  /\ zone_acres > 0 =>
                        entry.revenue_density
                            = (zone_value \div zone_acres) * 100000
                              + RoundRatio((zone_value % zone_acres) * 1000,
                                           zone_acres, 100)

\* a collection of parcels without area: the zone is reported with 0 percent
\* and 0 density
C12_Witness ==
    /\ MetricsDone
    /\ Len(properties) >= 2
    /\ metrics.total_acres = 0
    /\ HasKey(metrics.zones, "M")
    /\ Get(metrics.zones, "M").parcel_count = Len(properties)
    /\ Get(metrics.zones, "M").percent_of_land = 0
    /\ Get(metrics.zones, "M").revenue_density = 0

\* position of the first record of zone z
FirstOf(props, z) ==
    CHOOSE i \in WithZone(props, z) : \A j \in WithZone(props, z) : i <= j

\* C13: most_revenue_dense_zone is reported exactly when a zone entry exists;
\* its revenue_density is that of the named zone and no zone has a greater
\* one; of the zones tied for the maximum it names the one whose first
\* record comes earliest in the collection.
C13_MostDenseIsFirstMaximum ==
    MetricsDone =>
    LET best == metrics.most_revenue_dense_zone
    IN  /\ (best # NoDenseZone) <=> (metrics.zones # << >>)
        /\ (metrics.zones # << >>) <=>
              (\E i \in DOMAIN properties : ~NoZoning(properties, i))
        /\ best # NoDenseZone =>
              /\ HasKey(metrics.zones, best.zone)
              /\ best.revenue_per_acre = Get(metrics.zones, best.zone).revenue_density
              /\ \A z \in Keys(metrics.zones) :
                    /\ Get(metrics.zones, z).revenue_density <= best.revenue_per_acre
                    /\ (z # best.zone
                        /\ Get(metrics.zones, z).revenue_density = best.revenue_per_acre)
                          => FirstOf(properties, best.zone) < FirstOf(properties, z)

\* GRC met before GRB, both with density 0: GRC is reported
C13_Witness ==
    /\ MetricsDone
    /\ Len(metrics.zones) = 2
    /\ metrics.zones[1][1] = "GRC" /\ metrics.zones[2][1] = "GRB"
    /\ metrics.zones[1][2].revenue_density = metrics.zones[2][2].revenue_density
    /\ metrics.most_revenue_dense_zone.zone = "GRC"

\* the text under which a record's description is tallied
TalliedAs(prop) ==
    IF prop.land_use_desc \in {NoneText, << >>} THEN UNKNOWN_LAND_USE ELSE prop.land_use_desc

\* positions of the records of zone z tallied under text t
WithUse(props, z, t) == {i \in WithZone(props, z) : TalliedAs(props[i]) = t}

RECURSIVE SumCounts(_)
SumCounts(d) == IF d = << >> THEN 0 ELSE Head(d)[2] + SumCounts(Tail(d))

\* what C15 says of every tally but total_acres
ExactTallies(z) ==
    LET entry == Get(metrics.zones, z)
    IN  /\ WithZone(properties, z) # {}
        /\ entry.parcel_count = Cardinality(WithZone(properties, z))
        /\ entry.total_value = ZoneValue(properties, z)
        /\ \A i \in WithZone(properties, z) : HasKey(entry.land_uses, TalliedAs(properties[i]))
        /\ \A t \in Keys(entry.land_uses) :
              Get(entry.land_uses, t) = Cardinality(WithUse(properties, z, t))
        /\ SumCounts(entry.land_uses) = entry.parcel_count

\* C15 as claimed: the reported total_acres of a zone is the sum of the
\* parcel_area_acres of its records (and the other tallies are exact).
C15_TalliesAreExactSums ==
    MetricsDone =>
        /\ \A i \in DOMAIN properties :
              ~NoZoning(properties, i) <=> properties[i].zoning \in Keys(metrics.zones)
        /\ \A z \in Keys(metrics.zones) :
              /\ ExactTallies(z)
              /\ 10 * Get(metrics.zones, z).total_acres = ZoneAcres(properties, z)

\* C15 amended: parcel_count, total_value and the land_uses tally (None and ''
\* under 'Unknown') of every zone are exact and the land_uses counts add up to
\* parcel_count; the reported total_acres is the sum of parcel_area_acres
\* rounded to 2 decimals; records without zoning code are in no entry.
C15_TalliesExactAcresRounded ==
    MetricsDone =>
        /\ \A i \in DOMAIN properties :
              ~NoZoning(properties, i) <=> properties[i].zoning \in Keys(metrics.zones)
        /\ \A z \in Keys(metrics.zones) :
              /\ ExactTallies(z)
              /\ Get(metrics.zones, z).total_acres
                    = RoundHalfEven(ZoneAcres(properties, z), 10)
              /\ 2 * AbsVal(10 * Get(metrics.zones, z).total_acres
                              - ZoneAcres(properties, z)) <= 10

\* two SRB parcels of 0.204 and 0.1 acre report 0.3 acre for 0.304, next to a
\* municipal record tallied under 'Unknown' and a record without zoning code
C15_Witness ==
    /\ MetricsDone
    /\ HasKey(metrics.zones, "SRB")
    /\ Get(metrics.zones, "SRB").parcel_count = 2
    /\ Get(metrics.zones, "SRB").total_value = 550000
    /\ ZoneAcres(properties, "SRB") = 304
    /\ Get(metrics.zones, "SRB").total_acres = 30
    /\ HasKey(metrics.zones, "M")
    /\ Get(metrics.zones, "M").land_uses = << <<UNKNOWN_LAND_USE, 1>> >>
    /\ \E i \in DOMAIN properties : NoZoning(properties, i)

----------------------------------------------------------------------------
(* Further claims about the evaluator *)

\* the classifier keys in the order the claim lists them
ClaimedKeyOrder == <<
    <<"S","I","N","G","L","E"," ","F","A","M">>,
    <<"T","W","O"," ","F","A","M">>,
    <<"M","U","L","T","I"," ","F","A","M">>,
    <<"C","O","N","D","O">>,
    <<"A","P","A","R","T","M","E","N","T">>,
    <<"C","O","M","M","E","R","C","I","A","L">>,
    <<"R","E","T","A","I","L">>,
    <<"O","F","F","I","C","E">>,
    <<"I","N","D","U","S","T","R","I","A","L">>,
    <<"M","U","N","I","C","I","P","A","L">>,
    <<"V","A","C","A","N","T">>,
    <<"M","I","X","E","D"," ","U","S","E">> >>

\* the table positions whose key occurs in the uppercased description
MatchingKeys(desc) ==
    {k \in DOMAIN LAND_USE_CLASSIFICATIONS :
        Contains(Upper(desc), LAND_USE_CLASSIFICATIONS[k][1])}

\* C14: the classifier returns a category for every description: 'unknown'
\* for None or '', otherwise the category of the first key, in the listed
\* table order, that occurs in the uppercased description, and 'other' when
\* no key occurs.
C14_ClassifierFirstKeyWins ==
    /\ [k \in DOMAIN LAND_USE_CLASSIFICATIONS |-> LAND_USE_CLASSIFICATIONS[k][1]]
          = ClaimedKeyOrder
    /\ (Called /\ KnownZone(property)) =>
          LET desc == property.land_use_desc
          IN  IF desc \in {NoneText, AbsentText, << >>}
              THEN classification = "unknown"
              ELSE IF MatchingKeys(desc) = {}
              THEN classification = "other"
              ELSE \E k \in MatchingKeys(desc) :
                      /\ \A j \in MatchingKeys(desc) : k <= j
                      /\ classification = LAND_USE_CLASSIFICATIONS[k][2]

\* 'VACANT COMMERCIAL' holds two keys: COMMERCIAL stands before VACANT
C14_Witness ==
    /\ Called /\ KnownZone(property)
    /\ property.land_use_desc = DESC_VACANT_COMMERCIAL
    /\ Cardinality(MatchingKeys(property.land_use_desc)) = 2
    /\ classification = "commercial"

\* rank of a violation type in the order of the three checks
TypeRank(t) ==
    CASE t = "undersized_lot" -> 1
      [] t = "excess_lot_coverage" -> 2
      [] t = "incompatible_use" -> 3
      [] OTHER -> 0

\* C16: the list a call returns is the list any other call on the same
\* property and rule table returns; it holds at most one violation of each of
\* the three types, in the order undersized_lot, excess_lot_coverage,
\* incompatible_use.
C16_OneOfEachTypeInOrder ==
    (Called /\ violations # KeyError) =>
        /\ violations = check_zoning_violations_with(zoning_rules, property)
        /\ Len(violations) <= 3
        /\ \A i \in DOMAIN violations : TypeRank(violations[i].type) > 0
        /\ \A i, j \in DOMAIN violations :
              i < j => TypeRank(violations[i].type) < TypeRank(violations[j].type)

\* an undersized, over-built SRB lot holding a condominium: all three, in order
C16_Witness ==
    /\ Called
    /\ Len(violations) = 3
    /\ violations[1].type = "undersized_lot"
    /\ violations[2].type = "excess_lot_coverage"
    /\ violations[3].type = "incompatible_use"

----------------------------------------------------------------------------
(* Evaluator runs under rule tables that differ from ZONING_RULES in the
   fields no check reads *)

\* the rule fields besides the three the checks read and the name
UNCHECKED_FIELDS == {"min_frontage_ft", "min_open_space_pct", "front_setback_ft",
                     "side_setback_ft", "rear_setback_ft"}

\* values written into those fields
VariantValues == {None, 0, 1, 99}

\* the table with field f of every zone set to v
WithField(table, f, v) ==
    [i \in DOMAIN table |-> << table[i][1], [table[i][2] EXCEPT ![f] = v] >>]

\* the table with all five fields of every zone set to v
WithAllFields(table, v) ==
    [i \in DOMAIN table |->
        << table[i][1],
           [table[i][2] EXCEPT !.min_frontage_ft = v, !.min_open_space_pct = v,
                               !.front_setback_ft = v, !.side_setback_ft = v,
                               !.rear_setback_ft = v] >>]

RuleTableVariants ==
    {ZONING_RULES}
    \cup {WithField(ZONING_RULES, f, v) : f \in UNCHECKED_FIELDS, v \in VariantValues}
    \cup {WithAllFields(ZONING_RULES, v) : v \in VariantValues}

RulesProperties ==
    [parcel_id : {"P1"}, address : {"1 Main St"},
     zoning : {"SRB", "R", "GRA", "M", "XYZ", NoneStr},
     land_use_desc : {NoneText, DESC_SINGLE_FAM, DESC_CONDO},
     total_value : {300000}, parcel_area_acres : {200},
     parcel_area_sqft : {0, ToCentiSqft(14999), ToCentiSqft(15000), MissingKey},
     lot_coverage_pct : {0, ToCentiPct(20), ToCentiPct(20) + 10}]

InitRules ==
    /\ property \in RulesProperties
    /\ zoning_rules \in RuleTableVariants
    /\ violations = NotCalled
    /\ properties = << >>
    /\ metrics = NoResult
    /\ violations_analysis = NoAnalysis
    /\ awv_analysis = NoAnalysis
    /\ pos = 0
    /\ pass = "none"
    /\ classification = NotClassified
    /\ comparison = NoResult
    /\ infrastructure = NoInfrastructure
    /\ runs = 0
    /\ FetchReturned

NextRules == CheckZoningViolations

SpecRules == InitRules /\ [][NextRules]_vars

\* C20: the list returned under a rule table that differs from ZONING_RULES
\* only in min_frontage_ft, min_open_space_pct and the three setbacks is the
\* list returned under ZONING_RULES itself, for every property.
C20_UncheckedFieldsDoNotMatter ==
    Called => violations = check_zoning_violations_with(ZONING_RULES, property)

\* three violations found under a table whose five fields are all 99
C20_Witness ==
    /\ Called
    /\ zoning_rules = WithAllFields(ZONING_RULES, 99)
    /\ zoning_rules # ZONING_RULES
    /\ property.zoning = "SRB"
    /\ Len(violations) = 3

----------------------------------------------------------------------------
(* Repeated runs of the two aggregators over one unchanged collection *)

\* the aggregators are called again at most this many times
MaxRuns == 2

InitRerun ==
    /\ properties \in Collections(AggPool, MaxOrderProps)
    /\ property = NoneProperty
    /\ violations = NotCalled
    /\ metrics = NoResult
    /\ violations_analysis = NoAnalysis
    /\ awv_analysis = NoAnalysis
    /\ pos = 0
    /\ pass = "none"
    /\ zoning_rules = ZONING_RULES
    /\ classification = NotClassified
    /\ comparison = NoResult
    /\ infrastructure = NoInfrastructure
    /\ runs = 0
    /\ FetchReturned

CalculateZoneMetricsAgain ==
    /\ metrics # NoResult
    /\ runs < MaxRuns
    /\ metrics' = calculate_zone_metrics_again(metrics, properties)
    /\ runs' = runs + 1
    /\ UNCHANGED <<property, violations, properties, violations_analysis,
                   awv_analysis, pos, pass, zoning_rules, classification,
                   comparison, infrastructure,
                   fetch_parcels, tasks, semaphore, completed, awaited, fetch_pc>>

AnalyzeViolationsAgain ==
    /\ violations_analysis # NoAnalysis
    /\ runs < MaxRuns
    /\ violations_analysis' = analyze_violations_again(violations_analysis, properties)
    /\ runs' = runs + 1
    /\ UNCHANGED <<property, violations, properties, metrics, awv_analysis, pos, pass,
                   zoning_rules, classification, comparison, infrastructure,
                   fetch_parcels, tasks, semaphore, completed, awaited, fetch_pc>>

NextRerun ==
    \/ CalculateZoneMetrics
    \/ AnalyzeViolations
    \/ CalculateZoneMetricsAgain
    \/ AnalyzeViolationsAgain

SpecRerun == InitRerun /\ [][NextRerun]_vars

----------------------------------------------------------------------------
(* analyze_parallel.py : the values the two remote services answer with.
   A JSON number or a parsed float is held in 1/1000 of its unit. *)

\* Python None, as a request's outcome or a JSON null
PyNone == [json |-> "None"]

\* JSON values of the numeric fields of a MapGeo record
JsonNull == [json |-> "null"]
JsonNumber(milli) == [json |-> "number", milli |-> milli]
JsonString(chars) == [json |-> "string", chars |-> chars]

\* an exception leaving the function
Raised(exception) == [json |-> "raise", exception |-> exception]
IsRaised(value) == "exception" \in DOMAIN value

Digits == <<"0", "1", "2", "3", "4", "5", "6", "7", "8", "9">>

DigitValue(c) == (CHOOSE i \in 1..10 : Digits[i] = c) - 1

IsDigit(c) == \E i \in 1..10 : Digits[i] = c

\* the integer a digit string denotes (0 for the empty string)
RECURSIVE DigitsValue(_)
DigitsValue(chars) ==
    IF chars = << >> THEN 0
    ELSE DigitsValue(SubSeq(chars, 1, Len(chars) - 1)) * 10
         + DigitValue(chars[Len(chars)])

\* lines 87-93, str branch: float(str(value).replace(',', '')) of a text of
\* digits with at most one decimal point, in 1/1000; ValueError for the empty
\* string and for any other character (signs, exponents and blanks, which
\* float() also reads, do not occur in the modelled answers)
float_of_text(chars) ==
    LET text == SelectSeq(chars, LAMBDA c : c # ",")
        dots == {i \in 1..Len(text) : text[i] = "."}
        point == IF dots = {} THEN Len(text) + 1 ELSE CHOOSE i \in dots : TRUE
        whole == SubSeq(text, 1, point - 1)
        frac == SubSeq(text, point + 1, Len(text))
        frac3 == SubSeq(frac \o <<"0", "0", "0">>, 1, 3)
    IN  IF \/ Cardinality(dots) > 1
           \/ \E i \in 1..Len(text) : ~IsDigit(text[i]) /\ text[i] # "."
           \/ Len(whole) + Len(frac) = 0
        THEN Raised("ValueError")
        ELSE JsonNumber(DigitsValue(whole) * 1000 + DigitsValue(frac3))

\* lines 87-93
clean_number(value) ==
    IF value.json = "null" THEN JsonNumber(0)
    ELSE IF value.json = "number" THEN value
    ELSE float_of_text(value.chars)

\* re.search found nothing
NoMatch == -1

\* lines 57-82 of fetch_vgsi_building_data, on the page the request returned:
\* html.living_area and html.footprint are the numbers the living-area pattern
\* and the first matching footprint pattern capture (whole square feet: the
\* patterns capture digits and one comma), NoMatch when the pattern finds
\* nothing
building_data_of(html) ==
    LET living == html.living_area
        footprint == IF html.footprint # NoMatch THEN html.footprint ELSE living
        found == (IF living # NoMatch THEN {"living_area_sqft"} ELSE {})
                 \cup (IF footprint # NoMatch THEN {"building_footprint_sqft"} ELSE {})
    IN  IF found = {}
        THEN PyNone
        ELSE [json |-> "dict", keys |-> found,
              living_area_sqft |-> living,
              building_footprint_sqft |-> footprint]

\* lines 49-84: the request failed, timed out or answered with an error status
\* (all caught at line 83), or the page was read
fetch_vgsi_building_data(response) ==
    IF response.status # "ok" THEN PyNone ELSE building_data_of(response.html)

\* lines 38-46: the parsed JSON body, None after any failure
fetch_mapgeo_data(response) ==
    IF response.status # "ok" THEN PyNone ELSE response.body

\* bool(d) of an optional dict
TruthyDict(d) == d.json = "dict" /\ d.keys # {}

\* dict.get(key, default) of a building-data dict
GetOr(d, k, default) == IF k \in d.keys THEN d[k] ELSE default

\* the quotient a / d carried to the given number of decimal digits by long
\* division, as <<quotient, remainder>>, for a >= 0 and d > 0
RECURSIVE LongDivide(_, _, _, _)
LongDivide(q, r, d, digits) ==
    IF digits = 0 THEN <<q, r>>
    ELSE LongDivide(q * 10 + (r * 10) \div d, (r * 10) % d, d, digits - 1)

\* a * 10^digits / d to the nearest integer, ties to even
ScaledQuotient(a, d, digits) ==
    LET qr == LongDivide(a \div d, a % d, d, digits)
    IN  IF 2 * qr[2] < d THEN qr[1]
        ELSE IF 2 * qr[2] > d THEN qr[1] + 1
        ELSE IF qr[1] % 2 = 0 THEN qr[1] ELSE qr[1] + 1

\* a variant that tests the area for being non-zero instead of positive
lot_coverage_pct_nonzero_area(footprint, parcel_area_sqft) ==
    IF footprint > 0 /\ parcel_area_sqft > 0
    THEN ScaledQuotient(footprint * 100, parcel_area_sqft, 4)
    ELSE IF footprint > 0 /\ parcel_area_sqft < 0
    THEN 0 - ScaledQuotient(footprint * 100, 0 - parcel_area_sqft, 4)
    ELSE 0

\* lines 125-128: (building_footprint_sqft / parcel_area_sqft) * 100 in 1/100
\* percent (the float quotient is taken to the nearest 1/100 percent), for a
\* footprint in whole square feet and an area in 1/100 square foot
lot_coverage_pct(footprint, parcel_area_sqft) ==
    IF footprint > 0 /\ parcel_area_sqft > 0
    THEN ScaledQuotient(footprint * 100, parcel_area_sqft, 4)
    ELSE 0

\* 'data' in mapgeo_data
HasData(mapgeo_data) == mapgeo_data.json = "dict" /\ "data" \in mapgeo_data.keys

\* lines 106-132: the record built from a 'data' dict and the building data.
\* land_use_code, land_value and owner are copied too; nothing reads them.
property_info(props, vgsi_data) ==
    LET parcel_area_acres == clean_number(props.parcelArea).milli
        parcel_area_sqft == AcresToSqft(parcel_area_acres)
        base == [parcel_id |-> IF TruthyStr(props.propID) THEN props.propID ELSE props.id,
                 address |-> props.displayName,
                 zoning |-> props.zoningCode,
                 land_use_desc |-> props.lndUseDesc,
                 total_value |-> clean_number(props.totalValue).milli \div 1000,
                 parcel_area_acres |-> parcel_area_acres,
                 parcel_area_sqft |-> parcel_area_sqft,
                 account |-> props.account]
    IN  IF TruthyDict(vgsi_data)
        THEN LET footprint == GetOr(vgsi_data, "building_footprint_sqft", 0)
             IN  [k \in DOMAIN base \cup {"building_footprint_sqft", "living_area_sqft",
                                          "lot_coverage_pct"} |->
                    CASE k = "building_footprint_sqft" -> footprint
                      [] k = "living_area_sqft" -> GetOr(vgsi_data, "living_area_sqft", 0)
                      [] k = "lot_coverage_pct" -> lot_coverage_pct(footprint, parcel_area_sqft)
                      [] OTHER -> base[k]]
        ELSE [k \in DOMAIN base \cup {"building_footprint_sqft", "lot_coverage_pct"} |->
                    CASE k = "building_footprint_sqft" -> 0
                      [] k = "lot_coverage_pct" -> 0
                      [] OTHER -> base[k]]

\* lines 96-134.  A 'data' value that is no dict has no get (AttributeError,
\* line 103); a number text float() cannot read raises ValueError (line 93)
extract_property_info(mapgeo_data, vgsi_data) ==
    IF ~TruthyDict(mapgeo_data) \/ ~HasData(mapgeo_data)
    THEN PyNone
    ELSE LET props == mapgeo_data.data
         IN  IF props.json # "dict" THEN Raised("AttributeError")
             ELSE IF IsRaised(clean_number(props.parcelArea))
                     \/ IsRaised(clean_number(props.totalValue))
             THEN Raised("ValueError")
             ELSE property_info(props, vgsi_data)

----------------------------------------------------------------------------
(* analyze_parallel.py : fetch_property_data, one task per parcel.  A task
   is its parcel, its position and its locals; the tasks form a bag, since
   two tasks of equal parcel, position and locals behave alike. *)

\* a local not bound yet
Unbound == [json |-> "unbound"]

\* line 158: the coroutine of one parcel, not started
NewTask(parcel) ==
    [parcel |-> parcel, pc |-> "created", holds |-> FALSE,
     mapgeo_data |-> Unbound, account |-> Absent, result |-> Unbound]

\* asyncio.Semaphore.acquire without the test of the counter
start_task_unchecked(task, value) ==
    [task EXCEPT !.pc = "mapgeo", !.holds = TRUE]

\* line 139, the first run of the coroutine: with a free permit it takes the
\* permit and issues the MapGeo request (line 141), otherwise it blocks in
\* acquire
start_task(task, value) ==
    IF value > 0
    THEN [task EXCEPT !.pc = "mapgeo", !.holds = TRUE]
    ELSE [task EXCEPT !.pc = "acquire"]

\* the exit of "async with semaphore" (return or exception): the permit goes
\* back and the task is finished with its outcome
finish(task, outcome) ==
    [task EXCEPT !.pc = "done", !.holds = FALSE, !.result = outcome]

\* mapgeo_data.get('data', {}).get('account') of line 147: AttributeError
\* when the 'data' value is no dict
account_of(mapgeo_data) ==
    IF ~HasData(mapgeo_data) THEN NoneStr
    ELSE IF mapgeo_data.data.json # "dict" THEN "<AttributeError>"
    ELSE mapgeo_data.data.account

\* lines 141-151, from the answer of the MapGeo request to the next await or
\* the exit
after_mapgeo(task, response) ==
    LET mapgeo_data == fetch_mapgeo_data(response)
        account == account_of(mapgeo_data)
        bound == [task EXCEPT !.mapgeo_data = mapgeo_data]
    IN  IF ~TruthyDict(mapgeo_data) THEN finish(bound, PyNone)
        ELSE IF account = "<AttributeError>"
        THEN finish(bound, Raised("AttributeError"))
        ELSE IF TruthyStr(account)
        THEN [bound EXCEPT !.pc = "vgsi", !.account = account]
        ELSE finish([bound EXCEPT !.account = account],
                    extract_property_info(mapgeo_data, PyNone))

\* lines 149-151, from the answer of the VGSI request to the exit
after_vgsi(task, response) ==
    finish(task, extract_property_info(task.mapgeo_data,
                                       fetch_vgsi_building_data(response)))

----------------------------------------------------------------------------
(* What the two services answer in the modelled runs, by parcel and by
   account.  A request that fails, times out (15 s, lines 42 and 53) or gets an
   error status is the answer [status |-> "error"]. *)

RequestFailed == [status |-> "error"]

MapgeoRecord(id, zone, area, value, desc, account) ==
    [status |-> "ok",
     body |-> [json |-> "dict", keys |-> {"data"},
               data |-> [json |-> "dict", propID |-> id, id |-> id,
                         displayName |-> "12 Elm St", zoningCode |-> zone,
                         lndUseDesc |-> desc, totalValue |-> value,
                         parcelArea |-> area, account |-> account]]]

Page(living, footprint) ==
    [status |-> "ok", html |-> [living_area |-> living, footprint |-> footprint]]

\* 0.1 acre in SRB with a 1,089 sqft footprint: 25 percent, over the 20 allowed
PARCEL_BUILT == "0201-0001"
\* no account number: the building request is not made
PARCEL_NO_ACCOUNT == "0201-0002"
\* the building request fails
PARCEL_VGSI_DOWN == "0201-0003"
\* the building page holds neither figure
PARCEL_EMPTY_PAGE == "0201-0004"
\* the MapGeo request fails
PARCEL_MAPGEO_DOWN == "0201-0005"
\* the MapGeo body has no 'data'
PARCEL_NO_DATA == "0201-0006"
\* the MapGeo body is {"data": null}
PARCEL_NULL_DATA == "0201-0007"
\* parcelArea is the empty string; the building request fails
PARCEL_BLANK_AREA == "0201-0008"
\* a negative parcelArea with a building
PARCEL_NEGATIVE_AREA == "0201-0009"
\* parcelArea null, the page holds the living area only
PARCEL_NO_AREA == "0201-0010"

ParcelIds ==
    <<PARCEL_BUILT, PARCEL_NO_ACCOUNT, PARCEL_VGSI_DOWN, PARCEL_EMPTY_PAGE,
      PARCEL_MAPGEO_DOWN, PARCEL_NO_DATA, PARCEL_NULL_DATA, PARCEL_BLANK_AREA,
      PARCEL_NEGATIVE_AREA, PARCEL_NO_AREA>>

MAPGEO(id) ==
    CASE id = PARCEL_BUILT ->
           MapgeoRecord(id, "SRB", JsonNumber(100),
                        JsonString(<<"3","0","0",",","0","0","0">>),
                        DESC_SINGLE_FAM, "1001")
      [] id = PARCEL_NO_ACCOUNT ->
           MapgeoRecord(id, "GRA", JsonNumber(204), JsonNumber(400000000),
                        DESC_CONDO, NoneStr)
      [] id = PARCEL_VGSI_DOWN ->
           MapgeoRecord(id, "SRB", JsonString(<<"0",".","5">>), JsonNumber(250000000),
                        DESC_SINGLE_FAM, "1003")
      [] id = PARCEL_EMPTY_PAGE ->
           MapgeoRecord(id, "R", JsonNumber(5000), JsonNumber(90000000),
                        DESC_SINGLE_FAM, "1004")
      [] id = PARCEL_MAPGEO_DOWN -> RequestFailed
      [] id = PARCEL_NO_DATA ->
           [status |-> "ok", body |-> [json |-> "dict", keys |-> {"message"}]]
      [] id = PARCEL_NULL_DATA ->
           [status |-> "ok", body |-> [json |-> "dict", keys |-> {"data"},
                                       data |-> JsonNull]]
      [] id = PARCEL_BLANK_AREA ->
           MapgeoRecord(id, "SRB", JsonString(<< >>), JsonNumber(100000000),
                        DESC_SINGLE_FAM, "1008")
      [] id = PARCEL_NEGATIVE_AREA ->
           MapgeoRecord(id, "SRB", JsonNumber(-100), JsonNumber(100000000),
                        DESC_SINGLE_FAM, "1009")
      [] id = PARCEL_NO_AREA ->
           MapgeoRecord(id, NoneStr, JsonNull, JsonNull, NoneText, "1010")

VGSI(account) ==
    CASE account = "1001" -> Page(1800, 1089)
      [] account = "1003" -> RequestFailed
      [] account = "1004" -> Page(NoMatch, NoMatch)
      [] account = "1008" -> RequestFailed
      [] account = "1009" -> Page(NoMatch, 1089)
      [] account = "1010" -> Page(900, NoMatch)

----------------------------------------------------------------------------
(* analyze_parallel.py : fetch_all_properties *)

\* most parcels of a list of distinct parcels
MaxParcels == 2
\* the lists of one repeated parcel are this much longer than the permit count
MaxOverCap == 1

\* the rows load_parcel_ids returns
Parcel(id) == [display_id |-> id]

\* lists of parcels in the order of the file
ParcelLists ==
    UNION {{[i \in 1..n |-> Parcel(ParcelIds[ks[i]])] :
              ks \in {f \in [1..n -> 1..Len(ParcelIds)] :
                        \A i \in 1..(n - 1) : f[i] < f[i + 1]}} :
             n \in 0..MaxParcels}

\* a file that repeats one parcel more often than there are permits
RepeatedLists ==
    {[i \in 1..n |-> Parcel(PARCEL_BUILT)] :
       n \in (MAX_CONCURRENT_REQUESTS + 1)..(MAX_CONCURRENT_REQUESTS + MaxOverCap)}

\* line 158: one coroutine per parcel
RECURSIVE NewTasks(_)
NewTasks(list) ==
    IF list = << >> THEN EmptyBag
    ELSE SetToBag({NewTask(Head(list))}) (+) NewTasks(Tail(list))

InitFetch ==
    /\ fetch_parcels \in ParcelLists \cup RepeatedLists
    /\ tasks = NewTasks(fetch_parcels)
    /\ semaphore = MAX_CONCURRENT_REQUESTS
    /\ completed = << >>
    /\ awaited = 0
    /\ fetch_pc = "gather"
    /\ properties = << >>
    /\ property = NoneProperty
    /\ violations = NotCalled
    /\ metrics = NoResult
    /\ violations_analysis = NoAnalysis
    /\ awv_analysis = NoAnalysis
    /\ pos = 0
    /\ pass = "none"
    /\ zoning_rules = ZONING_RULES
    /\ classification = NotClassified
    /\ comparison = NoResult
    /\ infrastructure = NoInfrastructure
    /\ runs = 0

\* one task moves from state "before" to state "after"; the semaphore counter
\* follows the permit, and a finished task's outcome joins the completion queue
TaskStep(before, after) ==
    /\ tasks' = (tasks (-) SetToBag({before})) (+) SetToBag({after})
    /\ semaphore' = semaphore - (IF ~before.holds /\ after.holds THEN 1 ELSE 0)
                              + (IF before.holds /\ ~after.holds THEN 1 ELSE 0)
    /\ completed' = IF after.pc = "done" THEN Append(completed, after.result)
                    ELSE completed
    /\ UNCHANGED <<property, violations, properties, metrics, violations_analysis,
                   awv_analysis, pos, pass, zoning_rules, classification,
                   comparison, infrastructure, runs, fetch_parcels, awaited,
                   fetch_pc>>

\* a task runs for the first time
StartTask ==
    /\ fetch_pc = "gather"
    /\ \E task \in BagToSet(tasks) :
          /\ task.pc = "created"
          /\ TaskStep(task, start_task(task, semaphore))

\* a task blocked in acquire is woken with a free permit and issues its
\* MapGeo request
AcquirePermit ==
    /\ fetch_pc = "gather"
    /\ semaphore > 0
    /\ \E task \in BagToSet(tasks) :
          /\ task.pc = "acquire"
          /\ TaskStep(task, [task EXCEPT !.pc = "mapgeo", !.holds = TRUE])

\* the MapGeo request of a task is answered
MapgeoAnswered ==
    /\ fetch_pc = "gather"
    /\ \E task \in BagToSet(tasks) :
          /\ task.pc = "mapgeo"
          /\ TaskStep(task, after_mapgeo(task, MAPGEO(task.parcel.display_id)))

\* the VGSI request of a task is answered
VgsiAnswered ==
    /\ fetch_pc = "gather"
    /\ \E task \in BagToSet(tasks) :
          /\ task.pc = "vgsi"
          /\ TaskStep(task, after_vgsi(task, VGSI(task.account)))

\* lines 165-168: the loop awaits the next finished task; an exception of the
\* task is raised here and leaves fetch_all_properties
AwaitNext ==
    /\ fetch_pc = "gather"
    /\ completed # << >>
    /\ completed' = Tail(completed)
    /\ awaited' = awaited + 1
    /\ IF IsRaised(Head(completed))
       THEN fetch_pc' = "raised" /\ properties' = properties
       ELSE /\ fetch_pc' = fetch_pc
            /\ properties' = IF Head(completed) # PyNone
                             THEN Append(properties, Head(completed))
                             ELSE properties
    /\ UNCHANGED <<property, violations, metrics, violations_analysis,
                   awv_analysis, pos, pass, zoning_rules, classification,
                   comparison, infrastructure, runs, fetch_parcels, tasks, semaphore>>

\* line 174, after the last task has been awaited
ReturnProperties ==
    /\ fetch_pc = "gather"
    /\ awaited = Len(fetch_parcels)
    /\ fetch_pc' = "returned"
    /\ UNCHANGED <<property, violations, properties, metrics, violations_analysis,
                   awv_analysis, pos, pass, zoning_rules, classification,
                   comparison, infrastructure, runs, fetch_parcels, tasks, semaphore,
                   completed, awaited>>

NextFetch ==
    \/ StartTask
    \/ AcquirePermit
    \/ MapgeoAnswered
    \/ VgsiAnswered
    \/ AwaitNext
    \/ ReturnProperties

SpecFetch == InitFetch /\ [][NextFetch]_vars

----------------------------------------------------------------------------
(* Properties of the fetch *)


\* the finished tasks that returned a property record
Extracted ==
    {task \in BagToSet(tasks) :
       task.pc = "done" /\ task.result # PyNone /\ ~IsRaised(task.result)}

\* the building data the task's record was built from: None without an account
BuildingDataOf(task) ==
    IF TruthyStr(task.account)
    THEN fetch_vgsi_building_data(VGSI(task.account))
    ELSE PyNone

\* c is footprint / area * 100 to the nearest 1/100 percent
IsCoverageOf(c, footprint, parcel_area_sqft) ==
    LET diff == c * parcel_area_sqft - footprint * 1000000
    IN  2 * AbsVal(diff) <= parcel_area_sqft

\* C21: every record extract_property_info returns has parcel_area_sqft =
\* parcel_area_acres * 43560 and lot_coverage_pct = building_footprint_sqft /
\* parcel_area_sqft * 100 when footprint and area are both positive, 0
\* otherwise; without building data the footprint is 0; the coverage is never
\* negative
C21_AreaAndCoverageDerived ==
    \A task \in Extracted :
       LET info == task.result
       IN  /\ info.parcel_area_sqft * 10 = info.parcel_area_acres * SQFT_PER_ACRE
           /\ IF info.building_footprint_sqft > 0 /\ info.parcel_area_sqft > 0
              THEN IsCoverageOf(info.lot_coverage_pct, info.building_footprint_sqft,
                                info.parcel_area_sqft)
              ELSE info.lot_coverage_pct = 0
           /\ info.lot_coverage_pct >= 0
           /\ BuildingDataOf(task) = PyNone => info.building_footprint_sqft = 0

\* a built parcel at 25 percent, and a parcel with a building and a negative
\* area, both extracted in one run
C21_Witness ==
    /\ \E task \in Extracted :
          /\ task.result.building_footprint_sqft = 1089
          /\ task.result.lot_coverage_pct = 2500
    /\ \E task \in Extracted :
          /\ task.result.building_footprint_sqft > 0
          /\ task.result.parcel_area_sqft < 0
          /\ task.result.lot_coverage_pct = 0

\* the number of tasks of the bag that are in the given set of task states
RECURSIVE CountTasks(_)
CountTasks(set) ==
    IF set = {} THEN 0
    ELSE LET task == CHOOSE t \in set : TRUE
         IN  CopiesIn(task, tasks) + CountTasks(set \ {task})

\* tasks inside "async with semaphore"
Holders == CountTasks({task \in BagToSet(tasks) : task.holds})

\* a task whose MapGeo or VGSI request is under way
RequestInFlight(task) == task.pc \in {"mapgeo", "vgsi"}

\* C22: in every interleaving of the fetch tasks at most MAX_CONCURRENT_REQUESTS
\* tasks hold a permit at a time, and a task has a MapGeo or VGSI request
\* under way only while it holds one
C22_AtMostCapHoldersAndRequestsHoldPermit ==
    /\ Holders <= MAX_CONCURRENT_REQUESTS
    /\ semaphore = MAX_CONCURRENT_REQUESTS - Holders
    /\ \A task \in BagToSet(tasks) : RequestInFlight(task) => task.holds

\* every permit is taken, by tasks in both requests, while another task is
\* blocked in acquire
C22_Witness ==
    /\ Holders = MAX_CONCURRENT_REQUESTS
    /\ \E task \in BagToSet(tasks) : task.pc = "acquire"
    /\ \E task \in BagToSet(tasks) : task.pc = "vgsi" /\ task.holds
    /\ \E task \in BagToSet(tasks) : task.pc = "mapgeo" /\ task.holds

\* the positions of the list that hold the parcel id
ParcelsWithId(id) == {i \in DOMAIN fetch_parcels : fetch_parcels[i].display_id = id}

\* the positions of the returned list that hold a record of the parcel id
RecordsWithId(id) == {i \in DOMAIN properties : properties[i].parcel_id = id}

\* the MapGeo request of the parcel is answered with a body that has 'data'
FetchedWithData(id) == HasData(fetch_mapgeo_data(MAPGEO(id)))

\* C23: fetch_all_properties never ends in an exception of one parcel's task,
\* and when it returns every task has been awaited once, every permit is back,
\* and the list holds exactly one record for each parcel whose MapGeo answer
\* had a 'data' field and none for the others
C23_OneRecordPerFetchedParcel ==
    /\ fetch_pc # "raised"
    /\ fetch_pc = "returned" =>
          /\ awaited = Len(fetch_parcels)
          /\ semaphore = MAX_CONCURRENT_REQUESTS
          /\ Len(properties) <= Len(fetch_parcels)
          /\ \A i \in 1..Len(ParcelIds) :
                Cardinality(RecordsWithId(ParcelIds[i])) =
                   IF FetchedWithData(ParcelIds[i])
                   THEN Cardinality(ParcelsWithId(ParcelIds[i]))
                   ELSE 0

\* the finished tasks whose building request was made and gave no building
\* data: the request failed or the page held neither figure
WithoutBuildingData ==
    {task \in BagToSet(tasks) :
       /\ task.pc = "done"
       /\ TruthyStr(task.account)
       /\ fetch_vgsi_building_data(VGSI(task.account)) = PyNone}

\* C24: a task awaits the VGSI request only after its MapGeo request gave data
\* that carries an account; a failed or empty VGSI answer does not drop the
\* property: the task returns a record with building_footprint_sqft = 0 and
\* lot_coverage_pct = 0, which gets no excess_lot_coverage violation
C24_BuildingFetchOptional ==
    /\ \A task \in BagToSet(tasks) :
          task.pc = "vgsi" =>
             /\ TruthyDict(task.mapgeo_data)
             /\ HasData(task.mapgeo_data)
             /\ TruthyStr(task.mapgeo_data.data.account)
    /\ \A task \in WithoutBuildingData :
          /\ task.result # PyNone
          /\ ~IsRaised(task.result)
          /\ task.result.building_footprint_sqft = 0
          /\ task.result.lot_coverage_pct = 0
          /\ OfType(check_zoning_violations(task.result), "excess_lot_coverage") = << >>
          /\ OfType(awv_check_zoning_violations(task.result), "excess_lot_coverage") = << >>

----------------------------------------------------------------------------
(* Properties of the two aggregators taken together *)

\* the distinct non-empty zoning values of the collection
ZoningValues(props) ==
    {props[i].zoning : i \in {j \in DOMAIN props : ~NoZoning(props, j)}}

\* C25: over one collection the zone keys of calculate_zone_metrics()['zones']
\* and of analyze_violations()['violations_by_zone'] are the same set, the
\* distinct non-empty zoning values of the input, and for every such zone
\* parcel_count equals total_parcels
C25_AggregatorsAgreeOnZones ==
    (MetricsDone /\ AnalysisDone) =>
       /\ Keys(metrics.zones) = Keys(violations_analysis.violations_by_zone)
       /\ Keys(metrics.zones) = ZoningValues(properties)
       /\ \A z \in ZoningValues(properties) :
             Get(metrics.zones, z).parcel_count =
                Get(violations_analysis.violations_by_zone, z).total_parcels

\* both aggregators have run over a collection with two parcels of one zone, a
\* zone code outside the rule table and an item without zoning code
C25_Witness ==
    /\ MetricsDone /\ AnalysisDone
    /\ \E z \in ZoningValues(properties) : Get(metrics.zones, z).parcel_count = 2
    /\ "XYZ" \in ZoningValues(properties)
    /\ \E i \in DOMAIN properties : NoZoning(properties, i)

----------------------------------------------------------------------------
(* The violation-aggregation pass, one loop iteration per step, over short
   collections of parcels with no, one, two and three violations *)

\* 21,780 sqft in SRB, single family, no building data: no violation
KIND_SRB_OK == Record("SRB", "Ash St", 500, 350000, DESC_SINGLE_FAM, 0)
\* a farm covering 30 percent of a 4,356 sqft SRB lot: all three violations
KIND_SRB_FARM_BUILT == Record("SRB", "Fen Rd", 100, 250000, DESC_FARM, 3000)

TallyPool == {KIND_SRB_OK, KIND_SRB_TINY, KIND_SRB_FARM_BUILT, KIND_GRA_FARM,
              KIND_GRB_EMPTY, KIND_XYZ, KIND_NO_ZONE}

\* longest collection of the stepwise tally
MaxTallyProps == 3

InitTally ==
    /\ pass \in {"analyze_violations", "analyze_properties", "reanalyze"}
    /\ properties = << >>
    /\ pos = 0
    /\ violations_analysis = (IF pass = "analyze_properties"
                              THEN NoAnalysis ELSE EmptyAnalysis)
    /\ awv_analysis = (IF pass = "analyze_properties"
                       THEN EmptyAnalysis ELSE NoAnalysis)
    /\ property = NoneProperty
    /\ violations = NotCalled
    /\ metrics = NoResult
    /\ zoning_rules = ZONING_RULES
    /\ classification = NotClassified
    /\ comparison = NoResult
    /\ infrastructure = NoInfrastructure
    /\ runs = 0
    /\ FetchReturned

\* analyze_parallel.py lines 288-314
TallyAnalyzeViolations ==
    /\ pass = "analyze_violations"
    /\ pos < MaxTallyProps
    /\ \E kind \in TallyPool :
          LET prop == MakeProperty(kind, pos + 1)
          IN  /\ properties' = Append(properties, prop)
              /\ violations_analysis' = analyze_violations_step(violations_analysis, prop)
    /\ pos' = pos + 1
    /\ UNCHANGED <<property, violations, metrics, awv_analysis, pass,
                   zoning_rules, classification, comparison, infrastructure, runs,
                   fetch_parcels, tasks, semaphore, completed, awaited, fetch_pc>>

\* analyze_with_violations.py lines 195-221
TallyAnalyzeProperties ==
    /\ pass = "analyze_properties"
    /\ pos < MaxTallyProps
    /\ \E kind \in TallyPool :
          LET prop == MakeProperty(kind, pos + 1)
          IN  /\ properties' = Append(properties, prop)
              /\ awv_analysis' = analyze_properties_step(awv_analysis, prop)
    /\ pos' = pos + 1
    /\ UNCHANGED <<property, violations, metrics, violations_analysis, pass,
                   zoning_rules, classification, comparison, infrastructure, runs,
                   fetch_parcels, tasks, semaphore, completed, awaited, fetch_pc>>

\* reanalyze_with_corrected_rules.py lines 68-94
TallyReanalyze ==
    /\ pass = "reanalyze"
    /\ pos < MaxTallyProps
    /\ \E kind \in TallyPool :
          LET prop == MakeProperty(kind, pos + 1)
          IN  /\ properties' = Append(properties, prop)
              /\ violations_analysis' = reanalyze_step(violations_analysis, prop)
    /\ pos' = pos + 1
    /\ UNCHANGED <<property, violations, metrics, awv_analysis, pass,
                   zoning_rules, classification, comparison, infrastructure, runs,
                   fetch_parcels, tasks, semaphore, completed, awaited, fetch_pc>>

NextTally == TallyAnalyzeViolations \/ TallyAnalyzeProperties \/ TallyReanalyze

SpecTally == InitTally /\ [][NextTally]_vars

\* the sum of parcels_with_violations over the zones of the accumulator
RECURSIVE SumViolators(_)
SumViolators(by_zone) ==
    IF by_zone = << >> THEN 0
    ELSE Head(by_zone)[2].parcels_with_violations + SumViolators(Tail(by_zone))

\* C26: at every step of the violation-aggregation pass and for every zone,
\* 0 <= parcels_with_violations <= total_parcels, parcels_with_violations <=
\* the sum of violations_by_type <= 3 * parcels_with_violations, and
\* all_violations has one entry per violating parcel of any zone
C26_TallyBounds ==
    /\ \A z \in Keys(PassAcc.violations_by_zone) :
          LET entry == Get(PassAcc.violations_by_zone, z)
          IN  /\ 0 <= entry.parcels_with_violations
              /\ entry.parcels_with_violations <= entry.total_parcels
              /\ entry.parcels_with_violations <= SumCounts(entry.violations_by_type)
              /\ SumCounts(entry.violations_by_type) <= 3 * entry.parcels_with_violations
    /\ Len(PassAcc.all_violations) = SumViolators(PassAcc.violations_by_zone)

\* SRB holds a compliant parcel, one with a single violation and one with all
\* three
C26_Witness ==
    /\ pos = 3
    /\ HasKey(PassAcc.violations_by_zone, "SRB")
    /\ LET entry == Get(PassAcc.violations_by_zone, "SRB")
       IN  /\ entry.total_parcels = 3
           /\ entry.parcels_with_violations = 2
           /\ SumCounts(entry.violations_by_type) = 4
    /\ Len(PassAcc.all_violations) = 2

\* the rule table the running pass checks against
PassTable == IF pass = "analyze_properties" THEN ORIGINAL_ZONING_RULES ELSE zoning_rules

\* the zoning values met so far that are non-empty and missing from the table
UnknownZones == ZoningValues(properties) \ Keys(PassTable)

\* C27: a property with a non-empty zoning code that is absent from the rule
\* table creates the violations_by_zone entry of that code and is counted in
\* its total_parcels; the entry always has parcels_with_violations = 0, no
\* violations_by_type and no examples, and no all_violations entry is of that
\* code
C27_UnknownZoneCountedNeverViolating ==
    \A z \in UnknownZones :
       /\ HasKey(PassAcc.violations_by_zone, z)
       /\ LET entry == Get(PassAcc.violations_by_zone, z)
          IN  /\ entry.total_parcels = Cardinality(WithZone(properties, z))
              /\ entry.parcels_with_violations = 0
              /\ entry.violations_by_type = << >>
              /\ entry.examples = << >>
       /\ \A i \in DOMAIN PassAcc.all_violations :
             PassAcc.all_violations[i].property.zoning # z

\* two XYZ parcels counted next to a violating parcel of a known zone
C27_Witness ==
    /\ pass = "analyze_violations"
    /\ "XYZ" \in UnknownZones
    /\ Get(PassAcc.violations_by_zone, "XYZ").total_parcels = 2
    /\ Len(PassAcc.all_violations) = 1

----------------------------------------------------------------------------
(* The two rule tables compared *)

\* the violation types of a returned list; none when the call raised
TypesOf(found) ==
    IF found = KeyError THEN {} ELSE {found[i].type : i \in DOMAIN found}

\* the zones that are keys of both rule tables
SharedZones == Keys(ORIGINAL_ZONING_RULES) \cap Keys(ZONING_RULES)

\* C28: for a property of a zone present in both rule tables, every violation
\* type the evaluator emits under the earlier table is also emitted under the
\* corrected table
C28_CorrectedTableKeepsViolations ==
    /\ SharedZones = {"SRB", "SRA", "GRA", "M", "R", "G1", "NRP"}
    /\ (Called /\ property.zoning \in SharedZones) =>
          /\ TypesOf(awv_check_zoning_violations(property))
                \subseteq TypesOf(reanalyze_check_zoning_violations(property))
          /\ violations # KeyError =>
                TypesOf(awv_check_zoning_violations(property)) \subseteq TypesOf(violations)

\* an SRA lot at 20.1 percent coverage: over the maximum of both tables
C28_Witness ==
    /\ Called
    /\ property.zoning = "SRA"
    /\ "excess_lot_coverage" \in TypesOf(awv_check_zoning_violations(property))
    /\ "excess_lot_coverage" \in TypesOf(reanalyze_check_zoning_violations(property))
    /\ "undersized_lot" \in TypesOf(violations)
    /\ "undersized_lot" \notin TypesOf(awv_check_zoning_violations(property))

----------------------------------------------------------------------------
(* Land uses the classifier cannot name *)

\* the description is a non-empty text that contains no key of the table
MatchesNoKey(desc) ==
    /\ TruthyText(desc)
    /\ \A k \in DOMAIN LAND_USE_CLASSIFICATIONS :
          ~Contains(Upper(desc), LAND_USE_CLASSIFICATIONS[k][1])

\* allowed uses of the rule tables that are no category of the classifier
NeverReturned ==
    {"accessory_dwelling", "mobile_home", "marine", "manufacturing", "research",
     "technology", "public", "conservation", "agriculture"}

\* the allowed uses of every zone of a rule table
AllowedUses(table) ==
    UNION {{table[i][2].allowed_uses[j] : j \in DOMAIN table[i][2].allowed_uses} :
             i \in DOMAIN table}

\* C29: a property of a rule-table zone whose non-empty land-use description
\* contains no classifier key is classified 'other' and receives one
\* incompatible_use violation, under both rule tables, no zone allowing
\* 'other'; and classify_land_use never returns accessory_dwelling,
\* mobile_home, marine, manufacturing, research, technology, public,
\* conservation or agriculture, so these allowed uses are never matched
C29_OtherIsNeverAllowed ==
    /\ "other" \notin AllowedUses(ZONING_RULES) \cup AllowedUses(ORIGINAL_ZONING_RULES)
    /\ NeverReturned \subseteq AllowedUses(ZONING_RULES) \cup AllowedUses(ORIGINAL_ZONING_RULES)
    /\ \A k \in DOMAIN LAND_USE_CLASSIFICATIONS :
          LAND_USE_CLASSIFICATIONS[k][2] \notin NeverReturned
    /\ Called => classification \notin NeverReturned
    /\ (Called /\ MatchesNoKey(property.land_use_desc)) =>
          /\ (KnownZone(property) /\ violations # KeyError) =>
                /\ classification = "other"
                /\ Len(OfType(violations, "incompatible_use")) = 1
                /\ OfType(violations, "incompatible_use")[1].current_use = "other"
          /\ (HasKey(ORIGINAL_ZONING_RULES, property.zoning)
               /\ awv_check_zoning_violations(property) # KeyError) =>
                Len(OfType(awv_check_zoning_violations(property), "incompatible_use")) = 1

\* a farm in the zone that allows agriculture is reported as incompatible
C29_Witness ==
    /\ Called
    /\ property.zoning = "NRP"
    /\ property.land_use_desc = DESC_FARM
    /\ classification = "other"
    /\ Len(OfType(violations, "incompatible_use")) = 1

----------------------------------------------------------------------------
(* Evaluator runs on descriptions that contain one or two classifier keys *)

\* every key alone and every two keys in either order, separated by a blank
KeyDescs ==
    {LAND_USE_CLASSIFICATIONS[i][1] : i \in DOMAIN LAND_USE_CLASSIFICATIONS}
    \cup {LAND_USE_CLASSIFICATIONS[i][1] \o <<" ">> \o LAND_USE_CLASSIFICATIONS[j][1] :
            i, j \in DOMAIN LAND_USE_CLASSIFICATIONS}

\* complete records of a residential, a business and an industrial zone
ClassifyProperties ==
    [parcel_id : {"P1"}, address : {"1 Main St"},
     zoning : {"SRB", "G1", "I"}, land_use_desc : KeyDescs,
     total_value : {300000}, parcel_area_acres : {3000},
     parcel_area_sqft : {AcresToSqft(3000)}, lot_coverage_pct : {0}]

InitClassify ==
    /\ property \in ClassifyProperties
    /\ violations = NotCalled
    /\ properties = << >>
    /\ metrics = NoResult
    /\ violations_analysis = NoAnalysis
    /\ awv_analysis = NoAnalysis
    /\ pos = 0
    /\ pass = "none"
    /\ zoning_rules = ZONING_RULES
    /\ classification = NotClassified
    /\ comparison = NoResult
    /\ infrastructure = NoInfrastructure
    /\ runs = 0
    /\ FetchReturned

NextClassify == CheckZoningViolations

SpecClassify == InitClassify /\ [][NextClassify]_vars

\* the position of the key of a category in the table
KeyIndex(key) ==
    CHOOSE k \in DOMAIN LAND_USE_CLASSIFICATIONS : LAND_USE_CLASSIFICATIONS[k][1] = key

\* the table positions whose key the upper-cased description contains
KeysIn(desc) ==
    {k \in DOMAIN LAND_USE_CLASSIFICATIONS :
       Contains(Upper(desc), LAND_USE_CLASSIFICATIONS[k][1])}

VACANT_KEY == <<"V","A","C","A","N","T">>
MIXED_USE_KEY == <<"M","I","X","E","D"," ","U","S","E">>

\* C30: a description that contains VACANT together with a key defined
\* earlier in the table is classified as that earlier key's category, not
\* vacant, so the property is checked for incompatible_use like any other; a
\* description that contains MIXED USE together with any other key is never
\* classified mixed_use
C30_EarlierKeyBeatsVacantAndMixedUse ==
    Called =>
       LET found == KeysIn(property.land_use_desc)
           earlier == {k \in found : k < KeyIndex(VACANT_KEY)}
           rules == Get(zoning_rules, property.zoning)
       IN  /\ (KeyIndex(VACANT_KEY) \in found /\ earlier # {}) =>
                /\ \E k \in earlier :
                      /\ \A j \in earlier : k <= j
                      /\ classification = LAND_USE_CLASSIFICATIONS[k][2]
                /\ classification # "vacant"
                /\ (Len(OfType(violations, "incompatible_use")) = 1)
                      <=> ~InList(classification, rules.allowed_uses)
                /\ Len(OfType(violations, "incompatible_use")) <= 1
           /\ (KeyIndex(MIXED_USE_KEY) \in found /\ found # {KeyIndex(MIXED_USE_KEY)}) =>
                classification # "mixed_use"

\* 'VACANT COMMERCIAL' in a residential zone: classified commercial and
\* reported as incompatible
C30_Witness ==
    /\ Called
    /\ property.zoning = "SRB"
    /\ property.land_use_desc = DESC_VACANT_COMMERCIAL
    /\ classification = "commercial"
    /\ Len(OfType(violations, "incompatible_use")) = 1

====
